---- MODULE Spec2Model ----
(***************************************************************************)
(* Session Binding Operator (cloudflare-session-operator).                 *)
(*                                                                         *)
(* The model holds the cluster objects the reconciler reads and writes     *)
(* (SessionBinding resources, pods, the target deployment), the edge       *)
(* (session registry and routes), the injected clock, the event recorder   *)
(* and the one Reconcile invocation the controller's single worker has in  *)
(* flight.  Reconcile is cut at its suspension points: every cluster API   *)
(* call and every edge call is one step, so that user edits, deletions,    *)
(* pod status changes and edge changes interleave with it.                 *)
(*                                                                         *)
(* resourceVersion is modelled by the flag rec.fresh: the object the       *)
(* reconcile holds carries the stored resourceVersion exactly when nobody  *)
(* wrote the stored object since it was read.                              *)
(***************************************************************************)
EXTENDS Integers, Sequences, FiniteSets, TLC

VARIABLES
    bindings,    \* name -> stored SessionBinding (metadata, spec, status)
    pods,        \* pod name -> stored pod
    deployment,  \* TRUE iff the target deployment exists in the namespace
    sessions,    \* edge: sessionID -> TRUE iff the edge reports the session
    routes,      \* edge: sessionID -> programmed endpoint, "" when no route
    edgeUp,      \* edge: FALSE while edge calls fail (transport error)
    now,         \* the clock
    rec,         \* the Reconcile invocation in flight (pc = "idle": none)
    lastCall,    \* history: binding -> the most recent edge call made for it
    routed,      \* history: <<binding, sessionID>> of every EnsureRoute that
                 \* succeeded
    last,        \* history: the return of Reconcile that has just happened
                 \* (NoReturn as soon as anything but the clock moved on)
    tornDown,    \* history: bindings whose finalizer the teardown removed
    envSteps,    \* steps the actors around the operator may still take
    queue,       \* the work queue: bindings with a reconcile request pending
    follow,      \* the histories a specification follows, of "queue" (the
                 \* work queue), "mode" (which reconciles ran undisturbed)
                 \* and "posts" (what the admin requests asked for)
    applied,     \* the call of a function of the program that was evaluated
                 \* last, with its arguments and its result
    workers,     \* worker of the controller -> the binding whose Reconcile
                 \* it has in flight, "" when it is idle (followed where
                 \* the body of Reconcile is left out)
    hello        \* the hello service: its flags, its tracer provider and
                 \* the requests it is serving

vars == <<bindings, pods, deployment, sessions, routes, edgeUp, now, rec,
          lastCall, routed, last, tornDown, envSteps, queue, follow,
          applied, workers, hello>>

(* The variables of the operator *)
operatorVars ==
    <<bindings, pods, deployment, sessions, routes, edgeUp, now, rec,
      lastCall, routed, last, tornDown, envSteps, queue, follow, applied,
      workers>>

---------------------------------------------------------------------------
(* Bounds of the model *)

MaxGen == 2        \* metadata.generation stops growing here (1 = created)
MaxClock == 1      \* the clock stops here
MaxEnvSteps == 2   \* steps the user, the kubelet and the edge may take
MaxEnvStepsOne == 2  \* the same, where the namespace holds one binding
MaxEnvStepsLive == 2 \* the same, where the pod and the edge recover
MaxEnvStepsTime == 1 \* the same, where the clock advances
MaxContainers == 2   \* containers of a pod given to podEndpoint
MaxPorts == 2        \* ports a container declares
MaxProviders == 2    \* tracer providers the factory builds in a run
MaxPad == 1          \* white space on each side of an environment value
MaxEnvStepsTeardown == 2 \* edits and deletions the user of a binding makes

(* Program constants *)

MaxConcurrentReconcilesPerBinding == Cardinality({"b1", "b2"})

(* SetupWithManager line 286 *)
MaxConcurrentReconciles == 1

RequeueEdgeError == 60
RequeuePodNotReady == 10
RequeueEndpointMissing == 5
DefaultPort == 80

SessionBindingPhasePending == "Pending"
SessionBindingPhaseBound == "Bound"
SessionBindingPhaseExpired == "Expired"
SessionBindingPhaseError == "Error"

ConditionSessionDiscovered == "SessionDiscovered"
ConditionPodReady == "PodReady"
ConditionRouteConfigured == "RouteConfigured"

ConditionTrue == "True"
ConditionFalse == "False"
ConditionUnknown == "Unknown"

---------------------------------------------------------------------------
(* The universe of the model *)

Bindings == {"b1", "b2"}
SessionIDs == {"s1", "s2"}
OtherActor == "other"          \* an owner that is not a SessionBinding
PodIP == "10.0.0.7"
TemplateContainers == << <<8080>> >>   \* ports of each container of "web"
OtherContainers == << <<>> >>          \* a pod whose container has no port

(* The workers the controller starts *)
Workers == 1..MaxConcurrentReconciles

PodName(sessionID) == "session-" \o sessionID

PodNames == {PodName(s) : s \in SessionIDs}

NoTime == -1

EmptyStatus ==
    [phase |-> "", boundPod |-> "", routeEndpoint |-> "",
     observedGeneration |-> 0, lastReconcileTime |-> NoTime,
     conditions |-> <<>>]

NoBinding ==
    [exists |-> FALSE, generation |-> 0, deleting |-> FALSE,
     finalizer |-> FALSE, sessionID |-> "", status |-> EmptyStatus]

NewBinding(sessionID) ==
    [exists |-> TRUE, generation |-> 1, deleting |-> FALSE,
     finalizer |-> FALSE, sessionID |-> sessionID, status |-> EmptyStatus]

NoPod ==
    [exists |-> FALSE, name |-> "", owner |-> "", session |-> "",
     managed |-> FALSE, phase |-> "", ready |-> FALSE, podIP |-> "",
     containers |-> <<>>]

NoCall == [op |-> "", sessionID |-> "", endpoint |-> "", ok |-> FALSE]

NoApplication == [fn |-> "", args |-> <<>>, result |-> <<>>]

(* flagOverrides, flags.go lines 20-24: "" is the nil pointer (no          *)
(* override), "true" and "false" the values pointed to                     *)
OverrideValues == {"", "true", "false"}

FlagOverrides == [tracing : OverrideValues, metrics : OverrideValues]

NoOverrides == [tracing |-> "", metrics |-> ""]

(* What the OpenFeature client answers to BooleanValue *)
FlagAnswers == {"true", "false", "error"}

Requests == {"r1", "r2"}

(* A request of the hello service: the handler that runs (kind), where it  *)
(* is (pc), the overrides it holds (ov), the tracing override it loaded    *)
(* (seen), what isTracingEnabled answered (enabled), how its call of the   *)
(* tracer provider factory ended (factory), the provider a shutdown is to  *)
(* close (closes), and whether a shutdown ran in its course (disturbed)    *)
(* Where the posts are followed: the overrides a POST /admin/flags asks    *)
(* for (asked), and those that other POSTs stored in its course (missed)   *)
IdleRequest ==
    [kind |-> "", pc |-> "idle", ov |-> NoOverrides, seen |-> "",
     enabled |-> FALSE, factory |-> "", closes |-> 0, disturbed |-> FALSE,
     asked |-> NoOverrides, missed |-> NoOverrides]

(* The request that has just returned (NoRequestDone as soon as the        *)
(* service moved on): its kind, what it loaded and did, whether the tracer *)
(* provider was initialised at its return and whether its span was         *)
(* recorded                                                                *)
NoRequestDone ==
    [kind |-> "", seen |-> "", enabled |-> FALSE, factory |-> "",
     disturbed |-> FALSE, initialized |-> FALSE, recorded |-> FALSE,
     asked |-> NoOverrides, missed |-> NoOverrides]

(* The hello service when main starts to serve (main.go lines 137-157):    *)
(* the defaults are stored, no override is set, and with tracing on by     *)
(* default the tracer provider has been asked for, which the factory       *)
(* built (ok) or failed to build.  Providers are numbered in the order the *)
(* factory builds them; 0 is the no-op provider, and the shutdown function *)
(* is held as the number of the provider it closes, 0 for nil.             *)
StartedHello(tracingDefault, ok) ==
    [defaultTracing |-> tracingDefault,
     overrides |-> NoOverrides,
     tracerInitialized |-> tracingDefault /\ ok,
     tracerShutdownFn |-> IF tracingDefault /\ ok THEN 1 ELSE 0,
     tracerInitMu |-> "",
     provider |-> IF tracingDefault /\ ok THEN 1 ELSE 0,
     closed |-> {},
     everEnabled |-> tracingDefault,
     reqs |-> [r \in Requests |-> IdleRequest],
     done |-> NoRequestDone]

(* What a reconcile has observed so far: the answer of EnsureSession       *)
(* ("error", "absent", "present"), how ensureSessionPod ended ("error",    *)
(* "found", "created"), the answer of EnsureRoute ("error", "ok"), and the *)
(* call that failed in transport or was aborted by the cancellation of the *)
(* context; "" where there was none.  write is how patchStatus ended:      *)
(* "same" (no difference, no update), "written", "stale" (the update met a *)
(* newer resourceVersion), "failed" (the re-read or the update failed      *)
(* otherwise).                                                             *)
NoSeen ==
    [session |-> "", pod |-> "", route |-> "", fault |-> "", write |-> ""]

IdleRec ==
    [pc |-> "idle", key |-> "", obj |-> NoBinding, fresh |-> FALSE,
     pod |-> NoPod, requeueAfter |-> 0, err |-> "", loaded |-> NoBinding,
     retracted |-> FALSE, events |-> {}, mode |-> "", calls |-> {},
     seen |-> NoSeen]

NoReturn ==
    [key |-> "", err |-> "", requeueAfter |-> 0, loaded |-> NoBinding,
     wrote |-> FALSE, status |-> EmptyStatus, retracted |-> FALSE,
     events |-> {}, mode |-> "", calls |-> {}, seen |-> NoSeen,
     reconcileErr |-> "", pod |-> NoPod, pc |-> ""]

---------------------------------------------------------------------------
(* Pure functions of the controller *)

(* meta.SetStatusCondition, as setCondition calls it: a condition of the   *)
(* type is replaced in place, and its transition time moves only when the  *)
(* status changes; a new type is appended.                                 *)
setConditionAlwaysStamped(conditions, condType, status, reason, t) ==
    IF \E i \in 1..Len(conditions) : conditions[i].type = condType
    THEN [i \in 1..Len(conditions) |->
            IF conditions[i].type = condType
            THEN [type |-> condType, status |-> status, reason |-> reason,
                  lastTransitionTime |-> t]
            ELSE conditions[i]]
    ELSE Append(conditions,
                [type |-> condType, status |-> status, reason |-> reason,
                 lastTransitionTime |-> t])

setCondition(conditions, condType, status, reason, t) ==
    IF \E i \in 1..Len(conditions) : conditions[i].type = condType
    THEN [i \in 1..Len(conditions) |->
            IF conditions[i].type = condType
            THEN [type |-> condType, status |-> status, reason |-> reason,
                  lastTransitionTime |->
                      IF conditions[i].status = status
                      THEN conditions[i].lastTransitionTime ELSE t]
            ELSE conditions[i]]
    ELSE Append(conditions,
                [type |-> condType, status |-> status, reason |-> reason,
                 lastTransitionTime |-> t])

isPodReadyByPhaseOnly(pod) ==
    pod.phase = "Running"

(* isPodReady, lines 205-215 *)
isPodReady(pod) ==
    IF pod.phase # "Running" THEN FALSE ELSE pod.ready

firstPortOfFirstContainer(containers, i) ==
    IF i > Len(containers) THEN DefaultPort
    ELSE IF Len(containers[i]) > 0 THEN containers[i][1]
    ELSE DefaultPort

(* podEndpoint lines 221-227: the loop over the containers from the i-th *)
RECURSIVE firstPort(_, _)
firstPort(containers, i) ==
    IF i > Len(containers) THEN DefaultPort
    ELSE IF Len(containers[i]) > 0 THEN containers[i][1]
    ELSE firstPort(containers, i + 1)

(* podEndpoint, lines 217-229 *)
podEndpoint(pod) ==
    IF pod.podIP = "" THEN ""
    ELSE pod.podIP \o ":" \o ToString(firstPort(pod.containers, 1))

SessionPodLabelledByBinding(bindingName, sessionID) ==
    [exists |-> TRUE, name |-> PodName(sessionID), owner |-> bindingName,
     session |-> bindingName, managed |-> TRUE, phase |-> "",
     ready |-> FALSE, podIP |-> "", containers |-> TemplateContainers]

(* The pod ensureSessionPod builds from the deployment's template. *)
SessionPod(bindingName, sessionID) ==
    [exists |-> TRUE, name |-> PodName(sessionID), owner |-> bindingName,
     session |-> sessionID, managed |-> TRUE, phase |-> "", ready |-> FALSE,
     podIP |-> "", containers |-> TemplateContainers]

AddFinalizerToNothing(obj) ==
    obj

(* controllerutil.AddFinalizer, Reconcile line 75 *)
AddFinalizerTo(obj) ==
    [obj EXCEPT !.finalizer = TRUE]

RemoveFinalizerKept(obj) ==
    obj

(* controllerutil.RemoveFinalizer, handleDeletion line 240 *)
RemoveFinalizerFrom(obj) ==
    [obj EXCEPT !.finalizer = FALSE]

(* r.Update of a binding: metadata and spec are taken from the object      *)
(* sent, the status stays the stored one (status is a subresource), and a  *)
(* binding under deletion that holds no finalizer any more is removed.     *)
UpdateBinding(stored, obj) ==
    IF obj.deleting /\ ~obj.finalizer THEN NoBinding
    ELSE [obj EXCEPT !.status = stored.status]

CleanupRouteErrIgnored(ok) ==
    ""

(* cleanupResources lines 258-261: the error DeleteRoute's failure becomes *)
CleanupRouteErr(ok) ==
    IF ok THEN "" ELSE "EdgeUnavailable"

StampAhead(obj, t) ==
    [obj EXCEPT !.status.observedGeneration = obj.generation + 1,
                !.status.lastReconcileTime = t]

StampWithoutGeneration(obj, t) ==
    [obj EXCEPT !.status.lastReconcileTime = t]

(* Reconcile, lines 81-83 *)
Stamp(obj, t) ==
    [obj EXCEPT !.status.observedGeneration = obj.generation,
                !.status.lastReconcileTime = t]

---------------------------------------------------------------------------
(* reconcileActive: the status each exit writes into the binding it holds *)

InvalidSpecOnFreshStatus(obj, t) ==
    [obj EXCEPT !.status =
                    [EmptyStatus EXCEPT
                        !.conditions =
                            setCondition(@, ConditionSessionDiscovered,
                                         ConditionFalse, "InvalidSpec", t),
                        !.phase = SessionBindingPhaseError]]

(* lines 94-100 *)
InvalidSpec(obj, t) ==
    [obj EXCEPT !.status.conditions =
                    setCondition(@, ConditionSessionDiscovered,
                                 ConditionFalse, "InvalidSpec", t),
                !.status.phase = SessionBindingPhaseError]

SessionErrorAsFalse(obj, t) ==
    [obj EXCEPT !.status.conditions =
                    setCondition(@, ConditionSessionDiscovered,
                                 ConditionFalse, "CloudflareError", t),
                !.status.phase = SessionBindingPhaseError]

(* lines 103-108 *)
SessionError(obj, t) ==
    [obj EXCEPT !.status.conditions =
                    setCondition(@, ConditionSessionDiscovered,
                                 ConditionUnknown, "CloudflareError", t),
                !.status.phase = SessionBindingPhaseError]

SessionMissingAsError(obj, t) ==
    [obj EXCEPT !.status.conditions =
                    setCondition(@, ConditionSessionDiscovered,
                                 ConditionFalse, "NotFound", t),
                !.status.phase = SessionBindingPhaseError]

(* lines 110-115 *)
SessionMissing(obj, t) ==
    [obj EXCEPT !.status.conditions =
                    setCondition(@, ConditionSessionDiscovered,
                                 ConditionFalse, "NotFound", t),
                !.status.phase = SessionBindingPhaseExpired]

(* line 117 *)
SessionActive(obj, t) ==
    [obj EXCEPT !.status.conditions =
                    setCondition(@, ConditionSessionDiscovered,
                                 ConditionTrue, "SessionActive", t)]

PodErrorKeepsPhase(obj) ==
    obj

(* lines 120-123 *)
PodError(obj) ==
    [obj EXCEPT !.status.phase = SessionBindingPhaseError]

PodNotReadyKeepsPhase(obj, pod, t) ==
    [obj EXCEPT !.status.conditions =
                    setCondition(@, ConditionPodReady, ConditionFalse,
                                 "WaitingForReadiness", t),
                !.status.boundPod = pod.name,
                !.status.routeEndpoint = ""]

(* lines 125-131 *)
PodNotReady(obj, pod, t) ==
    [obj EXCEPT !.status.conditions =
                    setCondition(@, ConditionPodReady, ConditionFalse,
                                 "WaitingForReadiness", t),
                !.status.phase = SessionBindingPhasePending,
                !.status.boundPod = pod.name,
                !.status.routeEndpoint = ""]

(* line 133 *)
PodIsReady(obj, t) ==
    [obj EXCEPT !.status.conditions =
                    setCondition(@, ConditionPodReady, ConditionTrue,
                                 "PodReady", t)]

EndpointMissingClearsRoute(obj, t) ==
    [obj EXCEPT !.status.conditions =
                    setCondition(@, ConditionRouteConfigured, ConditionFalse,
                                 "PodEndpointMissing", t),
                !.status.phase = SessionBindingPhaseError,
                !.status.routeEndpoint = ""]

(* lines 136-140 *)
EndpointMissing(obj, t) ==
    [obj EXCEPT !.status.conditions =
                    setCondition(@, ConditionRouteConfigured, ConditionFalse,
                                 "PodEndpointMissing", t),
                !.status.phase = SessionBindingPhaseError]

(* lines 142-147 *)
RouteErrorKeepsPhase(obj, t) ==
    [obj EXCEPT
        !.status.conditions =
            setCondition(@, ConditionRouteConfigured, ConditionFalse,
                         "CloudflareError", t)]

RouteError(obj, t) ==
    [obj EXCEPT !.status.conditions =
                    setCondition(@, ConditionRouteConfigured, ConditionFalse,
                                 "CloudflareError", t),
                !.status.phase = SessionBindingPhaseError]

RouteOkWithoutPort(obj, pod, endpoint, t) ==
    [obj EXCEPT !.status.phase = SessionBindingPhaseBound,
                !.status.boundPod = pod.name,
                !.status.routeEndpoint = pod.podIP,
                !.status.conditions =
                    setCondition(@, ConditionRouteConfigured, ConditionTrue,
                                 "RouteConfigured", t)]

(* lines 149-153 *)
RouteOk(obj, pod, endpoint, t) ==
    [obj EXCEPT !.status.phase = SessionBindingPhaseBound,
                !.status.boundPod = pod.name,
                !.status.routeEndpoint = endpoint,
                !.status.conditions =
                    setCondition(@, ConditionRouteConfigured, ConditionTrue,
                                 "RouteConfigured", t)]

StartActiveRequeuesInvalid(r, t) ==
    LET obj == Stamp(r.obj, t) IN
    IF obj.sessionID = ""
    THEN [r EXCEPT !.obj = InvalidSpec(obj, t),
                   !.requeueAfter = RequeueEdgeError, !.pc = "PatchGet"]
    ELSE [r EXCEPT !.obj = obj, !.pc = "EnsureSession"]

(* Reconcile lines 81-85 and reconcileActive up to its first edge call:    *)
(* the stamp, then the check of spec.sessionID.                            *)
StartActive(r, t) ==
    LET obj == Stamp(r.obj, t) IN
    IF obj.sessionID = ""
    THEN [r EXCEPT !.obj = InvalidSpec(obj, t), !.requeueAfter = 0,
                   !.pc = "PatchGet"]
    ELSE [r EXCEPT !.obj = obj, !.pc = "EnsureSession"]

WithPodSkipsReadiness(r, pod, t) ==
    IF podEndpoint(pod) = ""
    THEN [r EXCEPT !.obj = EndpointMissing(PodIsReady(r.obj, t), t),
                   !.pod = pod, !.requeueAfter = RequeueEndpointMissing,
                   !.pc = "PatchGet"]
    ELSE [r EXCEPT !.obj = PodIsReady(r.obj, t), !.pod = pod,
                   !.pc = "EnsureRoute"]

WithPodNoRequeue(r, pod, t) ==
    IF ~isPodReady(pod)
    THEN [r EXCEPT !.obj = PodNotReady(r.obj, pod, t), !.pod = pod,
                   !.requeueAfter = 0, !.pc = "PatchGet"]
    ELSE IF podEndpoint(pod) = ""
    THEN [r EXCEPT !.obj = EndpointMissing(PodIsReady(r.obj, t), t),
                   !.pod = pod, !.requeueAfter = RequeueEndpointMissing,
                   !.pc = "PatchGet"]
    ELSE [r EXCEPT !.obj = PodIsReady(r.obj, t), !.pod = pod,
                   !.pc = "EnsureRoute"]

(* reconcileActive lines 125-141: from the pod ensureSessionPod returned   *)
(* to the call of EnsureRoute or to the exit Pending / Error.              *)
WithPod(r, pod, t) ==
    IF ~isPodReady(pod)
    THEN [r EXCEPT !.obj = PodNotReady(r.obj, pod, t), !.pod = pod,
                   !.requeueAfter = RequeuePodNotReady, !.pc = "PatchGet"]
    ELSE IF podEndpoint(pod) = ""
    THEN [r EXCEPT !.obj = EndpointMissing(PodIsReady(r.obj, t), t),
                   !.pod = pod, !.requeueAfter = RequeueEndpointMissing,
                   !.pc = "PatchGet"]
    ELSE [r EXCEPT !.obj = PodIsReady(r.obj, t), !.pod = pod,
                   !.pc = "EnsureRoute"]

(* cleanupResources lines 257-265, after the pod has been dealt with:      *)
(* the next call is DeleteRoute; when spec.sessionID is empty there is     *)
(* none, the CleanedUp event is emitted and handleDeletion goes on.        *)
AfterPodCleanup(r) ==
    IF r.obj.sessionID # ""
    THEN [r EXCEPT !.pc = "DeleteRoute"]
    ELSE [r EXCEPT !.events = @ \cup {"CleanedUp"}, !.pc = "RemoveFinalizer"]

(* cleanupResources line 248: the first call of the teardown *)
CleanupStart(r) ==
    IF r.obj.status.boundPod # ""
    THEN [r EXCEPT !.pc = "CleanupGetPod"]
    ELSE AfterPodCleanup(r)

StatusEqualNever(current, computed) ==
    FALSE

(* patchStatus line 274: equality.Semantic.DeepEqual of the two statuses *)
StatusEqual(current, computed) ==
    current = computed

(* Reconcile lines 86-90: the error Reconcile returns *)
ReturnedError(reconcileErr, statusErr) ==
    IF reconcileErr # "" THEN reconcileErr ELSE statusErr

(* The queue's handling of a result: an error is retried with backoff, a   *)
(* RequeueAfter is re-added after the delay, anything else is forgotten    *)
Requeues(err, requeueAfter) ==
    err # "" \/ requeueAfter > 0

(* The requests pending once the reconcile r has returned: its own request *)
(* was taken at the load; the result, or the watch event of the write the  *)
(* reconcile ended with, adds it again                                     *)
AfterReturn(q, r, err, wrote) ==
    IF "queue" \notin follow THEN q
    ELSE IF \/ Requeues(err, r.requeueAfter)
       \/ wrote
       \/ (r.pc = "RemoveFinalizer" /\ err = "")
    THEN q \cup {r.key}
    ELSE IF r.pc = "idle" THEN q \ {r.key} ELSE q

(* The watch events of a write: the bindings written, and the bindings    *)
(* that own a pod written, get a reconcile request                         *)
Enqueue(names) ==
    IF "queue" \in follow THEN queue \cup (names \cap Bindings) ELSE queue

(* The worker takes the request of b *)
Dequeue(b) ==
    IF "queue" \in follow THEN queue \ {b} ELSE queue

(* The mode of a reconcile in whose course another actor wrote *)
Disturbed(mode) ==
    IF "mode" \in follow THEN "disturbed" ELSE mode

(* The return of Reconcile: the invocation ends, the queue gets the result *)
Return(r, err, wrote) ==
    /\ queue' = AfterReturn(queue, r, err, wrote)
    /\ rec' = IdleRec
    /\ last' = [key |-> r.key, err |-> err, requeueAfter |-> r.requeueAfter,
                loaded |-> r.loaded, wrote |-> wrote,
                status |-> r.obj.status, retracted |-> r.retracted,
                events |-> r.events, mode |-> r.mode, calls |-> r.calls,
                seen |-> r.seen, reconcileErr |-> r.err, pod |-> r.pod,
                pc |-> r.pc]

---------------------------------------------------------------------------
(* Initial state: the bindings have just been created by their users, the  *)
(* operator has seen none of them, the namespace holds no pod.             *)

InitCluster ==
    /\ pods = [p \in PodNames |-> NoPod]
    /\ deployment \in BOOLEAN
    /\ sessions = [s \in SessionIDs |-> TRUE]
    /\ routes = [s \in SessionIDs |-> ""]
    /\ edgeUp = TRUE
    /\ now = 0
    /\ rec = IdleRec
    /\ lastCall = [b \in Bindings |-> NoCall]
    /\ routed = {}
    /\ last = NoReturn
    /\ tornDown = {}
    /\ applied = NoApplication
    /\ workers = [w \in Workers |-> ""]

(* The namespace holds b1, naming any session or none, and b2, naming s1   *)
(* (the other initial pairs are these with the names exchanged)            *)
Init ==
    /\ \E s \in SessionIDs \cup {""} :
          bindings = [b \in Bindings |->
                         IF b = "b1" THEN NewBinding(s) ELSE NewBinding("s1")]
    /\ InitCluster
    /\ hello = StartedHello(FALSE, FALSE)
    /\ envSteps = MaxEnvSteps
    /\ follow = {}
    /\ queue = {}

(* The namespace holds the live binding b1, which names a session the     *)
(* edge reports, and the target deployment                                 *)
InitLive ==
    /\ \E s \in SessionIDs :
          bindings = [b \in Bindings |->
                         IF b = "b1" THEN NewBinding(s) ELSE NoBinding]
    /\ InitCluster
    /\ hello = StartedHello(FALSE, FALSE)
    /\ deployment
    /\ envSteps = MaxEnvStepsLive
    /\ follow = {"queue"}
    /\ queue = {b \in Bindings : bindings[b].exists}

(* The namespace holds the binding b1 only *)
OneBinding ==
    /\ \E s \in SessionIDs \cup {""} :
          bindings = [b \in Bindings |->
                         IF b = "b1" THEN NewBinding(s) ELSE NoBinding]
    /\ InitCluster
    /\ hello = StartedHello(FALSE, FALSE)
    /\ follow = {"mode"}
    /\ queue = {}

InitOne ==
    /\ OneBinding
    /\ envSteps = MaxEnvStepsOne

InitTime ==
    /\ OneBinding
    /\ envSteps = MaxEnvStepsTime

---------------------------------------------------------------------------
(* Reconcile, one action per cluster API call or edge call *)

(* A reconcile that starts right after a successful, undisturbed reconcile *)
(* of the same binding runs "again"; any other one runs "first".           *)
ModeAtLoad(b) ==
    IF "mode" \notin follow THEN ""
    ELSE IF last.key = b /\ last.err = "" /\ last.mode \in {"first", "again"}
    THEN "again" ELSE "first"

(* Reconcile lines 65-85: Get of the binding, then the branch taken *)
Load(b) ==
    /\ rec.pc = "idle"
    /\ LET obj == bindings[b]
           r == [IdleRec EXCEPT !.key = b, !.obj = obj, !.loaded = obj,
                                !.fresh = TRUE, !.mode = ModeAtLoad(b)]
       IN  IF ~obj.exists \/ (obj.deleting /\ ~obj.finalizer)
           THEN Return(r, "", FALSE)
           ELSE /\ rec' = IF obj.deleting THEN CleanupStart(r)
                          ELSE IF ~obj.finalizer
                          THEN [r EXCEPT !.obj = AddFinalizerTo(obj),
                                         !.pc = "AddFinalizer"]
                          ELSE StartActive(r, now)
                /\ last' = NoReturn
                /\ queue' = Dequeue(b)
    /\ UNCHANGED <<bindings, pods, deployment, sessions, routes, edgeUp, now,
                   lastCall, routed, tornDown, envSteps, follow, applied, workers, hello>>

(* Reconcile lines 74-85: Update that stores the finalizer *)
AddFinalizer ==
    /\ rec.pc = "AddFinalizer"
    /\ LET r == [rec EXCEPT !.calls = @ \cup {"updateBinding"}] IN
       IF ~bindings[rec.key].exists
       THEN Return(r, "NotFound", FALSE) /\ UNCHANGED bindings
       ELSE IF ~rec.fresh
       THEN Return(r, "Conflict", FALSE) /\ UNCHANGED bindings
       ELSE /\ bindings' = [bindings EXCEPT ![rec.key] =
                                              UpdateBinding(@, rec.obj)]
            /\ rec' = StartActive([r EXCEPT !.obj = bindings'[rec.key]],
                                  now)
            /\ queue' = Enqueue({rec.key})
            /\ UNCHANGED last
    /\ UNCHANGED <<pods, deployment, sessions, routes, edgeUp, now, lastCall,
                   routed, tornDown, envSteps, follow, applied, workers, hello>>

(* reconcileActive lines 102-117: the call of EnsureSession *)
EnsureSession ==
    /\ rec.pc = "EnsureSession"
    /\ LET sid == rec.obj.sessionID IN
       /\ lastCall' = [lastCall EXCEPT ![rec.key] =
                          [op |-> "verifySession", sessionID |-> sid,
                           endpoint |-> "", ok |-> edgeUp]]
       /\ rec' = LET r == [rec EXCEPT !.calls = @ \cup {"verifySession"}]
                 IN
                 IF ~edgeUp
                 THEN [r EXCEPT !.obj = SessionError(rec.obj, now),
                                !.seen.session = "error",
                                !.requeueAfter = RequeueEdgeError,
                                !.pc = "PatchGet"]
                 ELSE IF ~sessions[sid]
                 THEN [r EXCEPT !.obj = SessionMissing(rec.obj, now),
                                !.seen.session = "absent",
                                !.requeueAfter = 0, !.pc = "PatchGet"]
                 ELSE [r EXCEPT !.obj = SessionActive(rec.obj, now),
                                !.seen.session = "present",
                                !.pc = "GetPod"]
    /\ UNCHANGED <<bindings, pods, deployment, sessions, routes, edgeUp, now,
                   routed, last, tornDown, envSteps, queue, follow, applied, workers, hello>>

(* ensureSessionPod lines 157-169: Get of the pod by its name and, when    *)
(* it is absent, Get of the target deployment (which never changes here)   *)
GetPod ==
    /\ rec.pc = "GetPod"
    /\ LET pod == pods[PodName(rec.obj.sessionID)]
           r == [rec EXCEPT !.calls = @ \cup {"getPod"},
                            !.seen.pod = "found"]
           d == [rec EXCEPT !.calls = @ \cup {"getPod", "getDeployment"}]
       IN
       rec' = IF pod.exists THEN WithPod(r, pod, now)
              ELSE IF ~deployment
              THEN [d EXCEPT !.obj = PodError(rec.obj),
                             !.err = "TemplateMissing",
                             !.seen.pod = "error",
                             !.requeueAfter = 0, !.pc = "PatchGet"]
              ELSE [d EXCEPT !.pc = "CreatePod"]
    /\ UNCHANGED <<bindings, pods, deployment, sessions, routes, edgeUp, now,
                   lastCall, routed, last, tornDown, envSteps, queue, follow, applied, workers, hello>>

(* ensureSessionPod lines 171-202: Create of the pod *)
CreatePod ==
    /\ rec.pc = "CreatePod"
    /\ LET name == PodName(rec.obj.sessionID)
           pod == [SessionPod(rec.key, rec.obj.sessionID)
                      EXCEPT !.phase = "Pending"]
           r == [rec EXCEPT !.calls = @ \cup {"createPod"}]
       IN  IF pods[name].exists
           THEN /\ rec' = [r EXCEPT !.obj = PodError(rec.obj),
                                    !.err = "AlreadyExists",
                                    !.seen.pod = "error",
                                    !.requeueAfter = 0, !.pc = "PatchGet"]
                /\ UNCHANGED <<pods, queue>>
           ELSE /\ pods' = [pods EXCEPT ![name] = pod]
                /\ queue' = Enqueue({rec.key})
                /\ rec' = WithPod([r EXCEPT !.events = @ \cup {"PodCreated"},
                                            !.seen.pod = "created"],
                                  pod, now)
    /\ UNCHANGED <<bindings, deployment, sessions, routes, edgeUp, now,
                   lastCall, routed, last, tornDown, envSteps, follow, applied, workers, hello>>

(* reconcileActive lines 142-153: the call of EnsureRoute *)
EnsureRoute ==
    /\ rec.pc = "EnsureRoute"
    /\ LET sid == rec.obj.sessionID
           endpoint == podEndpoint(rec.pod)
           r == [rec EXCEPT !.calls = @ \cup {"ensureRoute"}]
       IN  /\ lastCall' = [lastCall EXCEPT ![rec.key] =
                              [op |-> "ensureRoute", sessionID |-> sid,
                               endpoint |-> endpoint, ok |-> edgeUp]]
           /\ IF ~edgeUp
              THEN /\ rec' = [r EXCEPT !.obj = RouteError(rec.obj, now),
                                       !.seen.route = "error",
                                       !.requeueAfter = RequeueEdgeError,
                                       !.pc = "PatchGet"]
                   /\ UNCHANGED <<routes, routed>>
              ELSE /\ routes' = [routes EXCEPT ![sid] = endpoint]
                   /\ routed' = routed \cup {<<rec.key, sid>>}
                   /\ rec' = [r EXCEPT
                                 !.obj = RouteOk(rec.obj, rec.pod, endpoint,
                                                 now),
                                 !.seen.route = "ok",
                                 !.requeueAfter = 0, !.pc = "PatchGet"]
    /\ UNCHANGED <<bindings, pods, deployment, sessions, edgeUp, now, last,
                   tornDown, envSteps, queue, follow, applied, workers, hello>>

(* patchStatus lines 269-276: the re-read and the comparison.  Under a     *)
(* cancelled context the read is served by a client that reads its cache   *)
(* and refused by one that asks the server.                                *)
PatchGet ==
    /\ rec.pc = "PatchGet"
    /\ \E served \in IF rec.seen.fault = "canceled" THEN BOOLEAN ELSE {TRUE} :
       LET current == bindings[rec.key] IN
       IF ~served
       THEN Return([rec EXCEPT !.seen.write = "failed"],
                   ReturnedError(rec.err, "Canceled"), FALSE)
       ELSE IF ~current.exists
       THEN Return([rec EXCEPT !.seen.write = "failed"],
                   ReturnedError(rec.err, "NotFound"), FALSE)
       ELSE IF StatusEqual(current.status, rec.obj.status)
       THEN Return([rec EXCEPT !.seen.write = "same"],
                   ReturnedError(rec.err, ""), FALSE)
       ELSE /\ rec' = [rec EXCEPT !.fresh = TRUE, !.pc = "PatchUpdate"]
            /\ UNCHANGED <<last, queue>>
    /\ UNCHANGED <<bindings, pods, deployment, sessions, routes, edgeUp, now,
                   lastCall, routed, tornDown, envSteps, follow, applied, workers, hello>>

(* patchStatus lines 278-279: the status update; the request of a          *)
(* cancelled context is not sent                                           *)
PatchUpdate ==
    /\ rec.pc = "PatchUpdate"
    /\ LET r == [rec EXCEPT !.calls = @ \cup {"updateStatus"}] IN
       IF rec.seen.fault = "canceled"
       THEN /\ Return([r EXCEPT !.seen.write = "failed"],
                       ReturnedError(rec.err, "Canceled"), FALSE)
            /\ UNCHANGED bindings
       ELSE IF ~bindings[rec.key].exists
       THEN /\ Return([r EXCEPT !.seen.write = "failed"],
                       ReturnedError(rec.err, "NotFound"), FALSE)
            /\ UNCHANGED bindings
       ELSE IF ~rec.fresh
       THEN /\ Return([r EXCEPT !.seen.write = "stale"],
                       ReturnedError(rec.err, "Conflict"), FALSE)
            /\ UNCHANGED bindings
       ELSE /\ bindings' = [bindings EXCEPT ![rec.key].status = rec.obj.status]
            /\ Return([r EXCEPT !.seen.write = "written"],
                       ReturnedError(rec.err, ""), TRUE)
    /\ UNCHANGED <<pods, deployment, sessions, routes, edgeUp, now, lastCall,
                   routed, tornDown, envSteps, follow, applied, workers, hello>>

(* cleanupResources lines 248-250: Get of the pod named in status.boundPod *)
CleanupGetPod ==
    /\ rec.pc = "CleanupGetPod"
    /\ LET pod == pods[rec.obj.status.boundPod] IN
       rec' = IF pod.exists
              THEN [rec EXCEPT !.pod = pod, !.calls = @ \cup {"getPod"},
                               !.pc = "CleanupDeletePod"]
              ELSE AfterPodCleanup([rec EXCEPT !.calls = @ \cup {"getPod"}])
    /\ UNCHANGED <<bindings, pods, deployment, sessions, routes, edgeUp, now,
                   lastCall, routed, last, tornDown, envSteps, queue, follow, applied, workers, hello>>

(* cleanupResources lines 251-253: Delete of that pod, NotFound tolerated *)
CleanupDeletePod ==
    /\ rec.pc = "CleanupDeletePod"
    /\ pods' = [pods EXCEPT ![rec.pod.name] = NoPod]
    /\ queue' = Enqueue({pods[rec.pod.name].owner})
    /\ rec' = AfterPodCleanup([rec EXCEPT !.calls = @ \cup {"deletePod"}])
    /\ UNCHANGED <<bindings, deployment, sessions, routes, edgeUp, now,
                   lastCall, routed, last, tornDown, envSteps, follow, applied, workers, hello>>

(* cleanupResources lines 257-265: the call of DeleteRoute *)
DeleteRoute ==
    /\ rec.pc = "DeleteRoute"
    /\ LET sid == rec.obj.sessionID IN
       /\ lastCall' = [lastCall EXCEPT ![rec.key] =
                          [op |-> "retractRoute", sessionID |-> sid,
                           endpoint |-> "", ok |-> edgeUp]]
       /\ routes' = IF edgeUp THEN [routes EXCEPT ![sid] = ""] ELSE routes
       /\ IF CleanupRouteErr(edgeUp) # ""
          THEN Return([rec EXCEPT !.calls = @ \cup {"retractRoute"}],
                      CleanupRouteErr(edgeUp), FALSE)
          ELSE /\ rec' = [rec EXCEPT !.retracted = edgeUp,
                                     !.calls = @ \cup {"retractRoute"},
                                     !.events = @ \cup {"CleanedUp"},
                                     !.pc = "RemoveFinalizer"]
               /\ UNCHANGED <<last, queue>>
    /\ UNCHANGED <<bindings, pods, deployment, sessions, edgeUp, now, routed,
                   tornDown, envSteps, follow, applied, workers, hello>>

(* handleDeletion lines 240-244: Update that stores the binding without    *)
(* the finalizer; the cluster then removes the binding                     *)
RemoveFinalizer ==
    /\ rec.pc = "RemoveFinalizer"
    /\ LET r == [rec EXCEPT !.calls = @ \cup {"updateBinding"}] IN
       IF ~bindings[rec.key].exists
       THEN /\ Return(r, "NotFound", FALSE)
            /\ UNCHANGED <<bindings, tornDown>>
       ELSE IF ~rec.fresh
       THEN /\ Return(r, "Conflict", FALSE)
            /\ UNCHANGED <<bindings, tornDown>>
       ELSE /\ bindings' = [bindings EXCEPT ![rec.key] =
                           UpdateBinding(@, RemoveFinalizerFrom(rec.obj))]
            /\ tornDown' = tornDown \cup {rec.key}
            /\ Return(r, "", FALSE)
    /\ UNCHANGED <<pods, deployment, sessions, routes, edgeUp, now, lastCall,
                   routed, envSteps, follow, applied, workers, hello>>

---------------------------------------------------------------------------
(* Reconcile under failures of the cluster API and under cancellation *)

(* cleanupResources lines 248-250: Get of the bound pod fails with an      *)
(* error that is not NotFound; the if has no else, the teardown goes on    *)
CleanupGetPodFails ==
    /\ rec.pc = "CleanupGetPod"
    /\ rec' = AfterPodCleanup([rec EXCEPT !.calls = @ \cup {"getPod"},
                                          !.seen.fault = "getPod"])
    /\ UNCHANGED <<bindings, pods, deployment, sessions, routes, edgeUp, now,
                   lastCall, routed, last, tornDown, envSteps, queue, follow, applied, workers, hello>>

(* cleanupResources lines 251-253 and handleDeletion lines 236-238: Delete *)
(* of the bound pod fails with an error that is not NotFound               *)
CleanupDeletePodFails ==
    /\ rec.pc = "CleanupDeletePod"
    /\ Return([rec EXCEPT !.calls = @ \cup {"deletePod"},
                          !.seen.fault = "deletePod"], "Unavailable", FALSE)
    /\ UNCHANGED <<bindings, pods, deployment, sessions, routes, edgeUp, now,
                   lastCall, routed, tornDown, envSteps, follow, applied, workers, hello>>

(* The context of the reconcile is cancelled while a call of the active    *)
(* path is in flight: the call returns the context's error and the code    *)
(* after the call runs as after any error of that call.                    *)
Cancel ==
    /\ rec.pc \in {"AddFinalizer", "EnsureSession", "CreatePod",
                   "EnsureRoute"}
    /\ LET r == [rec EXCEPT !.seen.fault = "canceled"] IN
       CASE rec.pc = "AddFinalizer" ->
               Return([r EXCEPT !.calls = @ \cup {"updateBinding"}],
                      "Canceled", FALSE)
         [] rec.pc = "EnsureSession" ->
               /\ rec' = [r EXCEPT !.calls = @ \cup {"verifySession"},
                                   !.obj = SessionError(rec.obj, now),
                                   !.seen.session = "error",
                                   !.requeueAfter = RequeueEdgeError,
                                   !.pc = "PatchGet"]
               /\ UNCHANGED <<last, queue>>
         [] rec.pc = "CreatePod" ->
               /\ rec' = [r EXCEPT !.calls = @ \cup {"createPod"},
                                   !.obj = PodError(rec.obj),
                                   !.err = "Canceled",
                                   !.seen.pod = "error",
                                   !.requeueAfter = 0, !.pc = "PatchGet"]
               /\ UNCHANGED <<last, queue>>
         [] rec.pc = "EnsureRoute" ->
               /\ rec' = [r EXCEPT !.calls = @ \cup {"ensureRoute"},
                                   !.obj = RouteError(rec.obj, now),
                                   !.seen.route = "error",
                                   !.requeueAfter = RequeueEdgeError,
                                   !.pc = "PatchGet"]
               /\ UNCHANGED <<last, queue>>
    /\ UNCHANGED <<bindings, pods, deployment, sessions, routes, edgeUp, now,
                   lastCall, routed, tornDown, envSteps, follow, applied, workers, hello>>

---------------------------------------------------------------------------
(* The actors around the operator: the user, the kubelet, other writers of *)
(* the namespace, the edge and the clock.                                  *)

(* A write by another actor: the reconcile in flight no longer runs in an  *)
(* unchanged world, and the binding it holds is stale when b was written.  *)
Disturb(b, owner) ==
    /\ envSteps > 0
    /\ envSteps' = envSteps - 1
    /\ queue' = Enqueue({b, owner})
    /\ last' = NoReturn
    /\ rec' = IF rec.pc = "idle" THEN rec
              ELSE [rec EXCEPT !.mode = Disturbed(@),
                               !.fresh = IF rec.key = b THEN FALSE ELSE @]

PodStates ==
    {[phase |-> "Running", ready |-> FALSE, podIP |-> PodIP],
     [phase |-> "Running", ready |-> TRUE, podIP |-> PodIP],
     [phase |-> "Running", ready |-> TRUE, podIP |-> ""]}

(* The user edits spec.sessionID: the generation grows. *)
EditSpec(b, sessionID) ==
    /\ bindings[b].exists
    /\ bindings[b].sessionID # sessionID
    /\ bindings[b].generation < MaxGen
    /\ bindings' = [bindings EXCEPT ![b].sessionID = sessionID,
                                    ![b].generation = @ + 1]
    /\ Disturb(b, "")
    /\ UNCHANGED <<pods, deployment, sessions, routes, edgeUp, now, lastCall,
                   routed, tornDown, follow, applied, workers, hello>>

(* The user deletes the binding: with a finalizer the deletion timestamp   *)
(* is set, without one the binding is removed.                             *)
DeleteBinding(b) ==
    /\ bindings[b].exists
    /\ ~bindings[b].deleting
    /\ bindings' = [bindings EXCEPT ![b] =
                       IF @.finalizer THEN [@ EXCEPT !.deleting = TRUE]
                       ELSE NoBinding]
    /\ Disturb(b, "")
    /\ UNCHANGED <<pods, deployment, sessions, routes, edgeUp, now, lastCall,
                   routed, tornDown, follow, applied, workers, hello>>

(* The kubelet reports a new status of a pod. *)
PodStatus(p, st) ==
    /\ pods[p].exists
    /\ pods' = [pods EXCEPT ![p].phase = st.phase, ![p].ready = st.ready,
                            ![p].podIP = st.podIP]
    /\ pods' # pods
    /\ Disturb("", pods[p].owner)
    /\ UNCHANGED <<bindings, deployment, sessions, routes, edgeUp, now,
                   lastCall, routed, tornDown, follow, applied, workers, hello>>

(* Another actor creates a pod that has the name of a session pod. *)
CreateOtherPod(p) ==
    /\ ~pods[p].exists
    /\ pods' = [pods EXCEPT ![p] =
                   [NoPod EXCEPT !.exists = TRUE, !.name = p,
                                 !.owner = OtherActor, !.phase = "Pending",
                                 !.containers = OtherContainers]]
    /\ Disturb("", "")
    /\ UNCHANGED <<bindings, deployment, sessions, routes, edgeUp, now,
                   lastCall, routed, tornDown, follow, applied, workers, hello>>

(* Another actor deletes a pod. *)
DeletePod(p) ==
    /\ pods[p].exists
    /\ pods' = [pods EXCEPT ![p] = NoPod]
    /\ Disturb("", pods[p].owner)
    /\ UNCHANGED <<bindings, deployment, sessions, routes, edgeUp, now,
                   lastCall, routed, tornDown, follow, applied, workers, hello>>

(* The edge registers or drops a session. *)
SessionChange(s) ==
    /\ sessions' = [sessions EXCEPT ![s] = ~@]
    /\ Disturb("", "")
    /\ UNCHANGED <<bindings, pods, deployment, routes, edgeUp, now, lastCall,
                   routed, tornDown, follow, applied, workers, hello>>

(* The edge becomes unreachable or reachable again. *)
EdgeChange ==
    /\ edgeUp' = ~edgeUp
    /\ Disturb("", "")
    /\ UNCHANGED <<bindings, pods, deployment, sessions, routes, now,
                   lastCall, routed, tornDown, follow, applied, workers, hello>>

(* The kubelet brings a pod to Running and Ready with a pod IP.  The owner *)
(* of the pod, when it is a binding, gets a reconcile request.             *)
KubeletReady(p) ==
    /\ pods[p].exists
    /\ ~(pods[p].phase = "Running" /\ pods[p].ready /\ pods[p].podIP # "")
    /\ pods' = [pods EXCEPT ![p].phase = "Running", ![p].ready = TRUE,
                            ![p].podIP = PodIP]
    /\ queue' = Enqueue({pods[p].owner})
    /\ last' = NoReturn
    /\ rec' = IF rec.pc = "idle" THEN rec ELSE [rec EXCEPT !.mode = Disturbed(@)]
    /\ UNCHANGED <<bindings, deployment, sessions, routes, edgeUp, now,
                   lastCall, routed, tornDown, envSteps, follow, applied, workers, hello>>

(* The edge becomes reachable again; the operator is not told. *)
EdgeRecovers ==
    /\ ~edgeUp
    /\ edgeUp' = TRUE
    /\ last' = NoReturn
    /\ rec' = IF rec.pc = "idle" THEN rec ELSE [rec EXCEPT !.mode = Disturbed(@)]
    /\ UNCHANGED <<bindings, pods, deployment, sessions, routes, now,
                   lastCall, routed, tornDown, envSteps, queue, follow, applied, workers, hello>>

(* Time passes. *)
Tick ==
    /\ now < MaxClock
    /\ now' = now + 1
    /\ UNCHANGED <<bindings, pods, deployment, sessions, routes, edgeUp, rec,
                   lastCall, routed, last, tornDown, envSteps, queue, follow, applied, workers, hello>>

---------------------------------------------------------------------------

Reconcile ==
    \/ \E b \in Bindings : Load(b)
    \/ AddFinalizer
    \/ EnsureSession
    \/ GetPod
    \/ CreatePod
    \/ EnsureRoute
    \/ PatchGet
    \/ PatchUpdate
    \/ CleanupGetPod
    \/ CleanupDeletePod
    \/ DeleteRoute
    \/ RemoveFinalizer

Environment ==
    \/ \E b \in Bindings, s \in SessionIDs \cup {""} : EditSpec(b, s)
    \/ \E b \in Bindings : DeleteBinding(b)
    \/ \E p \in PodNames, st \in PodStates : PodStatus(p, st)
    \/ \E p \in PodNames : CreateOtherPod(p)
    \/ \E p \in PodNames : DeletePod(p)
    \/ \E s \in SessionIDs : SessionChange(s)
    \/ EdgeChange

Faults ==
    \/ CleanupGetPodFails
    \/ CleanupDeletePodFails
    \/ Cancel

Next == Reconcile \/ Environment

NextTime == Next \/ Tick

(* Two bindings in the namespace, under a clock that stands still *)
Spec == Init /\ [][Next]_vars

(* One binding in the namespace, under a clock that advances *)
SpecTime == InitTime /\ [][NextTime]_vars

(* The queue delivers a pending request to the worker *)
QueuedLoad == \E b \in queue : Load(b)

(* The reconcile of a live binding gets the answer of the call it is      *)
(* waiting for                                                             *)
ActiveStep ==
    \/ AddFinalizer
    \/ EnsureSession
    \/ GetPod
    \/ CreatePod
    \/ EnsureRoute
    \/ PatchGet
    \/ PatchUpdate

(* What happens around a binding that stays live with its session *)
LiveEnvironment ==
    \/ \E p \in PodNames, st \in PodStates : PodStatus(p, st)
    \/ \E p \in PodNames : CreateOtherPod(p)
    \/ \E p \in PodNames : DeletePod(p)
    \/ EdgeChange
    \/ \E p \in PodNames : KubeletReady(p)
    \/ EdgeRecovers

NextLive ==
    \/ \E b \in Bindings : Load(b)
    \/ ActiveStep
    \/ LiveEnvironment

(* One live binding whose session the edge keeps reporting: the queue      *)
(* honours every request, every call returns, the kubelet gets the pod     *)
(* ready and the edge comes back.                                          *)
SpecLive ==
    /\ InitLive
    /\ [][NextLive]_vars
    /\ WF_vars(QueuedLoad)
    /\ WF_vars(ActiveStep)
    /\ \A p \in PodNames : WF_vars(KubeletReady(p))
    /\ WF_vars(EdgeRecovers)

NextFaults == Next \/ Faults

(* One binding in the namespace, with calls of the cluster API that fail   *)
(* and reconciles whose context is cancelled                               *)
SpecFaults == InitOne /\ [][NextFaults]_vars

---------------------------------------------------------------------------
(* A binding from its creation to its teardown *)

(* The namespace holds the binding b1, which names a session the edge      *)
(* reports, and the target deployment; the request of its creation is      *)
(* pending                                                                 *)
InitTeardown ==
    /\ \E s \in SessionIDs :
          bindings = [b \in Bindings |->
                         IF b = "b1" THEN NewBinding(s) ELSE NoBinding]
    /\ InitCluster
    /\ hello = StartedHello(FALSE, FALSE)
    /\ deployment
    /\ envSteps = MaxEnvStepsTeardown
    /\ follow = {"queue"}
    /\ queue = {b \in Bindings : bindings[b].exists}

(* The teardown gets the answer of the call it is waiting for *)
TeardownStep ==
    \/ CleanupGetPod
    \/ CleanupDeletePod
    \/ DeleteRoute
    \/ RemoveFinalizer

(* The user edits spec.sessionID or deletes the binding *)
UserStep ==
    \/ \E b \in Bindings, s \in SessionIDs : EditSpec(b, s)
    \/ \E b \in Bindings : DeleteBinding(b)

NextTeardown ==
    \/ QueuedLoad
    \/ ActiveStep
    \/ TeardownStep
    \/ UserStep
    \/ \E p \in PodNames : KubeletReady(p)

(* One binding whose user edits and deletes it, with a kubelet that gets   *)
(* its pods ready and an edge that answers                                 *)
SpecTeardown == InitTeardown /\ [][NextTeardown]_vars

(* The teardown gets an answer to the call it is waiting for, a failure of *)
(* the cluster API included                                                *)
TeardownCall ==
    \/ TeardownStep
    \/ CleanupGetPodFails
    \/ CleanupDeletePodFails

NextTeardownLive ==
    \/ NextTeardown
    \/ CleanupGetPodFails
    \/ CleanupDeletePodFails
    \/ EdgeChange
    \/ EdgeRecovers

(* The same binding, with an edge that fails and recovers and cluster API  *)
(* calls of the teardown that fail: the queue delivers every pending       *)
(* request, every call returns, the Delete of the pod succeeds in the end  *)
(* and the edge comes back.                                                *)
SpecTeardownLive ==
    /\ InitTeardown
    /\ [][NextTeardownLive]_vars
    /\ WF_vars(QueuedLoad)
    /\ WF_vars(ActiveStep)
    /\ WF_vars(TeardownCall)
    /\ SF_vars(CleanupDeletePod)
    /\ WF_vars(EdgeRecovers)

---------------------------------------------------------------------------
(* The functions of the program, applied to arguments of bounded size *)

SeqsUpTo(S, n) == UNION {[1..k -> S] : k \in 0..n}

PortNumbers == {8080, 9090}

(* The containers of a pod: for each container the ports it declares *)
ContainerLists == SeqsUpTo(SeqsUpTo(PortNumbers, MaxPorts), MaxContainers)

(* No binding, no pod, no reconcile: only functions are evaluated *)
InitFunctions ==
    /\ bindings = [b \in Bindings |-> NoBinding]
    /\ InitCluster
    /\ hello = StartedHello(FALSE, FALSE)
    /\ deployment
    /\ envSteps = 0
    /\ follow = {}
    /\ queue = {}

(* The functions keep no state between calls, so a behaviour holds one    *)
(* application                                                            *)
Apply(fn, args, result) ==
    /\ applied = NoApplication
    /\ applied' = [fn |-> fn, args |-> args, result |-> result]
    /\ UNCHANGED <<bindings, pods, deployment, sessions, routes, edgeUp, now,
                   rec, lastCall, routed, last, tornDown, envSteps, queue,
                   follow, workers, hello>>

(* The edge client's configuration: NewClientFromEnv reads the account id *)
(* and the API token from the environment, "" when the variable is unset  *)
Credentials ==
    [accountID : {"", "acct"}, apiToken : {"", "token"}]

CredentialsAbsent(c) ==
    c.apiToken = "" \/ c.accountID = ""

Endpoints == {"", PodIP \o ":" \o ToString(DefaultPort)}

APIClientEnsureSessionNeedsCredentials(c, sessionID) ==
    IF sessionID = "" THEN [exists |-> FALSE, err |-> "sessionID is empty"]
    ELSE IF CredentialsAbsent(c)
    THEN [exists |-> FALSE, err |-> "credentials missing"]
    ELSE [exists |-> TRUE, err |-> ""]

(* APIClient.EnsureSession, client.go lines 37-48 *)
APIClientEnsureSession(c, sessionID) ==
    IF sessionID = "" THEN [exists |-> FALSE, err |-> "sessionID is empty"]
    ELSE IF CredentialsAbsent(c) THEN [exists |-> TRUE, err |-> ""]
    ELSE [exists |-> TRUE, err |-> ""]

(* APIClient.EnsureRoute, client.go lines 50-63: the error returned *)
APIClientEnsureRoute(c, sessionID, endpoint) ==
    IF sessionID = "" THEN "sessionID is empty"
    ELSE IF endpoint = "" THEN "endpoint is empty"
    ELSE IF CredentialsAbsent(c) THEN ""
    ELSE ""

(* APIClient.DeleteRoute, client.go lines 65-75: the error returned *)
APIClientDeleteRoute(c, sessionID) ==
    IF sessionID = "" THEN ""
    ELSE IF CredentialsAbsent(c) THEN ""
    ELSE ""

ApplyEnsureSession ==
    \E c \in Credentials, sessionID \in SessionIDs \cup {""} :
        Apply("EnsureSession", <<c, sessionID>>,
              APIClientEnsureSession(c, sessionID))

ApplyEnsureRoute ==
    \E c \in Credentials, sessionID \in SessionIDs \cup {""},
       endpoint \in Endpoints :
        Apply("EnsureRoute", <<c, sessionID, endpoint>>,
              APIClientEnsureRoute(c, sessionID, endpoint))

ApplyDeleteRoute ==
    \E c \in Credentials, sessionID \in SessionIDs \cup {""} :
        Apply("DeleteRoute", <<c, sessionID>>,
              APIClientDeleteRoute(c, sessionID))

ApplyPodEndpoint ==
    \E ip \in {"", PodIP}, containers \in ContainerLists :
        LET pod == [NoPod EXCEPT !.exists = TRUE, !.podIP = ip,
                                 !.containers = containers]
        IN  Apply("podEndpoint", <<pod>>, podEndpoint(pod))

(* A string as the sequence of its characters *)
Uppers ==
    <<"A", "B", "C", "D", "E", "F", "G", "H", "I", "J", "K", "L", "M",
      "N", "O", "P", "Q", "R", "S", "T", "U", "V", "W", "X", "Y", "Z">>

Lowers ==
    <<"a", "b", "c", "d", "e", "f", "g", "h", "i", "j", "k", "l", "m",
      "n", "o", "p", "q", "r", "s", "t", "u", "v", "w", "x", "y", "z">>

WhiteSpace == {" ", "\t"}

(* strings.ToLower *)
ToLower(str) ==
    [i \in 1..Len(str) |->
        IF \E k \in 1..Len(Uppers) : Uppers[k] = str[i]
        THEN Lowers[CHOOSE k \in 1..Len(Uppers) : Uppers[k] = str[i]]
        ELSE str[i]]

ToUpper(str) ==
    [i \in 1..Len(str) |->
        IF \E k \in 1..Len(Lowers) : Lowers[k] = str[i]
        THEN Uppers[CHOOSE k \in 1..Len(Lowers) : Lowers[k] = str[i]]
        ELSE str[i]]

RECURSIVE TrimLeft(_)
TrimLeft(str) ==
    IF str # <<>> /\ Head(str) \in WhiteSpace THEN TrimLeft(Tail(str))
    ELSE str

RECURSIVE TrimRight(_)
TrimRight(str) ==
    IF str # <<>> /\ str[Len(str)] \in WhiteSpace
    THEN TrimRight(SubSeq(str, 1, Len(str) - 1))
    ELSE str

(* strings.TrimSpace *)
TrimSpace(str) == TrimRight(TrimLeft(str))

(* os.Getenv: the value of the variable, "" when it is unset *)
Getenv(env) == IF env.set THEN env.value ELSE <<>>

TruthyWords ==
    {<<"1">>, <<"t", "r", "u", "e">>, <<"t">>, <<"y", "e", "s">>, <<"y">>,
     <<"o", "n">>}

FalsyWords ==
    {<<"0">>, <<"f", "a", "l", "s", "e">>, <<"f">>, <<"n", "o">>, <<"n">>,
     <<"o", "f", "f">>}

(* getBoolEnv, main.go lines 60-73, with the variable's trimming left out *)
getBoolEnvUntrimmed(env, def) ==
    LET v == ToLower(Getenv(env))
    IN  IF v = <<>> THEN def
        ELSE IF v \in TruthyWords THEN TRUE
        ELSE IF v \in FalsyWords THEN FALSE
        ELSE def

(* getBoolEnv, main.go lines 60-73 *)
getBoolEnv(env, def) ==
    LET v == ToLower(TrimSpace(Getenv(env)))
    IN  IF v = <<>> THEN def
        ELSE IF v \in TruthyWords THEN TRUE
        ELSE IF v \in FalsyWords THEN FALSE
        ELSE def

(* Values of the variable: the words getBoolEnv knows and some it does    *)
(* not, in lower case, in upper case and capitalised, between white space *)
OtherWords ==
    {<<>>, <<"2">>, <<"t", "r", "u">>, <<"y", "e", "s", "s">>,
     <<"o", " ", "n">>, <<"n", "o", "n", "e">>}

Capitalised(str) ==
    IF str = <<>> THEN str ELSE ToUpper(<<Head(str)>>) \o Tail(str)

Pads == SeqsUpTo(WhiteSpace, MaxPad)

EnvValues ==
    {l \o w \o r :
        l \in Pads, r \in Pads,
        w \in UNION {{x, ToUpper(x), Capitalised(x)} :
                        x \in TruthyWords \cup FalsyWords \cup OtherWords}}

Environments ==
    {[set |-> FALSE, value |-> <<>>]}
        \cup {[set |-> TRUE, value |-> v] : v \in EnvValues}

ApplyGetBoolEnv ==
    \E env \in Environments, def \in BOOLEAN :
        Apply("getBoolEnv", <<env, def>>, getBoolEnv(env, def))

NextFunctions ==
    \/ ApplyGetBoolEnv
    \/ ApplyPodEndpoint
    \/ ApplyEnsureSession
    \/ ApplyEnsureRoute
    \/ ApplyDeleteRoute

SpecFunctions == InitFunctions /\ [][NextFunctions]_vars

---------------------------------------------------------------------------
(* The controller's workers and its queue, with the body of Reconcile left *)
(* out.  The queue is taken to promise nothing per binding: any idle       *)
(* worker may take any pending request.                                    *)

InitWorkers ==
    /\ \E s \in SessionIDs \cup {""} :
          bindings = [b \in Bindings |->
                         IF b = "b1" THEN NewBinding(s) ELSE NewBinding("s1")]
    /\ InitCluster
    /\ hello = StartedHello(FALSE, FALSE)
    /\ envSteps = MaxEnvSteps
    /\ follow = {"queue"}
    /\ queue = Bindings

(* An idle worker takes the pending request of b and calls Reconcile *)
WorkerStart(w, b) ==
    /\ workers[w] = ""
    /\ b \in queue
    /\ workers' = [workers EXCEPT ![w] = b]
    /\ queue' = queue \ {b}
    /\ UNCHANGED <<bindings, pods, deployment, sessions, routes, edgeUp, now,
                   rec, lastCall, routed, last, tornDown, envSteps, follow,
                   applied, hello>>

(* Reconcile returns to the worker, with or without a request to come      *)
(* again (an error or a RequeueAfter)                                      *)
WorkerReturn(w, again) ==
    /\ workers[w] # ""
    /\ workers' = [workers EXCEPT ![w] = ""]
    /\ queue' = IF again THEN queue \cup {workers[w]} ELSE queue
    /\ UNCHANGED <<bindings, pods, deployment, sessions, routes, edgeUp, now,
                   rec, lastCall, routed, last, tornDown, envSteps, follow,
                   applied, hello>>

NextWorkers ==
    \/ \E w \in Workers, b \in Bindings : WorkerStart(w, b)
    \/ \E w \in Workers, again \in BOOLEAN : WorkerReturn(w, again)
    \/ \E b \in Bindings, s \in SessionIDs \cup {""} : EditSpec(b, s)
    \/ \E b \in Bindings : DeleteBinding(b)

SpecWorkers == InitWorkers /\ [][NextWorkers]_vars

---------------------------------------------------------------------------
(* The hello service (hello-world): the feature flags, the admin endpoints *)
(* and the tracer provider.  A request is cut where it reads or writes the *)
(* shared variables of flags.go, so that requests interleave there.        *)

TracingDecisionIgnoresOverride(ov, def, answer) ==
    IF answer = "error" THEN [enabled |-> def, ensure |-> FALSE]
    ELSE [enabled |-> answer = "true", ensure |-> answer = "true"]

(* isTracingEnabled, flags.go lines 65-83: what it returns and whether it  *)
(* calls ensureTracerProvider, from the overrides loaded, the default and  *)
(* the answer of the OpenFeature client                                    *)
TracingDecision(ov, def, answer) ==
    IF ov.tracing # ""
    THEN [enabled |-> ov.tracing = "true", ensure |-> ov.tracing = "true"]
    ELSE IF answer = "error" THEN [enabled |-> def, ensure |-> FALSE]
    ELSE [enabled |-> answer = "true", ensure |-> answer = "true"]

(* adminFlagsHandler, flags.go lines 117-139: the overrides loaded, then   *)
(* the query parameters that parse as a bool, then the fields of the JSON  *)
(* body that are set                                                       *)
MergeOverrides(ov, query, body) ==
    [tracing |-> IF body.tracing # "" THEN body.tracing
                 ELSE IF query.tracing # "" THEN query.tracing
                 ELSE ov.tracing,
     metrics |-> IF body.metrics # "" THEN body.metrics
                 ELSE IF query.metrics # "" THEN query.metrics
                 ELSE ov.metrics]

InitHello ==
    /\ bindings = [b \in Bindings |-> NoBinding]
    /\ InitCluster
    /\ deployment
    /\ envSteps = 0
    /\ follow = {}
    /\ queue = {}
    /\ \E tracingDefault \in BOOLEAN, ok \in BOOLEAN :
          hello = StartedHello(tracingDefault, ok)

(* The request r has returned *)
RequestDone(h, r, recorded) ==
    [h EXCEPT !.reqs[r] = IdleRequest,
              !.done = [kind |-> h.reqs[r].kind,
                        seen |-> h.reqs[r].seen,
                        enabled |-> h.reqs[r].enabled,
                        factory |-> h.reqs[r].factory,
                        disturbed |-> h.reqs[r].disturbed,
                        initialized |-> h.tracerInitialized,
                        recorded |-> recorded,
                        asked |-> h.reqs[r].asked,
                        missed |-> h.reqs[r].missed]]

(* helloHandler line 87 and isTracingEnabled lines 66-82: a request to /   *)
(* arrives, loads the overrides and evaluates the flag                     *)
HelloEval(r) ==
    /\ hello.reqs[r].pc = "idle"
    /\ \E answer \in FlagAnswers :
          LET ov == hello.overrides
              d == TracingDecision(ov, hello.defaultTracing, answer)
          IN  hello' =
                 [hello EXCEPT
                     !.done = NoRequestDone,
                     !.everEnabled = @ \/ (ov.tracing = "" /\ answer = "true"),
                     !.reqs[r] =
                         [IdleRequest EXCEPT
                             !.kind = "hello", !.seen = ov.tracing,
                             !.enabled = d.enabled,
                             !.pc = IF d.ensure THEN "check" ELSE "serve"]]
    /\ UNCHANGED operatorVars

(* ensureTracerProvider lines 165-167: the check outside the mutex *)
EnsureCheck(r) ==
    /\ hello.reqs[r].pc = "check"
    /\ hello' = [hello EXCEPT !.done = NoRequestDone,
                              !.reqs[r].pc =
                                  IF hello.tracerInitialized THEN "serve"
                                  ELSE "lock"]
    /\ UNCHANGED operatorVars

(* ensureTracerProvider line 168: tracerInitMu.Lock() *)
EnsureLock(r) ==
    /\ hello.reqs[r].pc = "lock"
    /\ hello.tracerInitMu = ""
    /\ hello' = [hello EXCEPT !.done = NoRequestDone, !.tracerInitMu = r,
                              !.reqs[r].pc = "locked"]
    /\ UNCHANGED operatorVars

EnsureLockedWithoutRecheck(r) ==
    /\ hello.reqs[r].pc = "locked"
    /\ \E ok \in IF hello.provider < MaxProviders THEN BOOLEAN ELSE {FALSE} :
          hello' = IF ok
                   THEN [hello EXCEPT !.done = NoRequestDone,
                                      !.provider = @ + 1,
                                      !.reqs[r].factory = "ok",
                                      !.reqs[r].pc = "store"]
                   ELSE [hello EXCEPT !.done = NoRequestDone,
                                      !.tracerInitMu = "",
                                      !.reqs[r].factory = "failed",
                                      !.reqs[r].pc = "serve"]
    /\ UNCHANGED operatorVars

(* ensureTracerProvider lines 170-178: the check under the mutex and the   *)
(* call of the factory, which installs the provider it builds or fails     *)
EnsureLocked(r) ==
    /\ hello.reqs[r].pc = "locked"
    /\ IF hello.tracerInitialized
       THEN hello' = [hello EXCEPT !.done = NoRequestDone,
                                   !.tracerInitMu = "",
                                   !.reqs[r].pc = "serve"]
       ELSE \E ok \in IF hello.provider < MaxProviders THEN BOOLEAN
                      ELSE {FALSE} :
               hello' = IF ok
                        THEN [hello EXCEPT !.done = NoRequestDone,
                                           !.provider = @ + 1,
                                           !.reqs[r].factory = "ok",
                                           !.reqs[r].pc = "store"]
                        ELSE [hello EXCEPT !.done = NoRequestDone,
                                           !.tracerInitMu = "",
                                           !.reqs[r].factory = "failed",
                                           !.reqs[r].pc = "serve"]
    /\ UNCHANGED operatorVars

(* ensureTracerProvider lines 179-181 *)
EnsureStore(r) ==
    /\ hello.reqs[r].pc = "store"
    /\ hello' = [hello EXCEPT !.done = NoRequestDone,
                              !.tracerShutdownFn = hello.provider,
                              !.tracerInitialized = TRUE,
                              !.tracerInitMu = "",
                              !.reqs[r].pc = "serve"]
    /\ UNCHANGED operatorVars

(* helloHandler lines 88-101: with tracing enabled the span helloHandler   *)
(* is started on the provider installed and ended at the return; a live    *)
(* provider of the factory records it                                      *)
HelloServe(r) ==
    /\ hello.reqs[r].pc = "serve"
    /\ hello' = RequestDone(hello, r,
                            /\ hello.reqs[r].enabled
                            /\ hello.provider # 0
                            /\ hello.provider \notin hello.closed)
    /\ UNCHANGED operatorVars

(* adminFlagsHandler lines 116-139: POST /admin/flags loads the overrides  *)
(* and applies its query parameters and its body to the copy               *)
AdminPost(r) ==
    /\ hello.reqs[r].pc = "idle"
    /\ \E asked \in {MergeOverrides(NoOverrides, query, body) :
                         query \in FlagOverrides, body \in FlagOverrides} :
          hello' = [hello EXCEPT
                       !.done = NoRequestDone,
                       !.reqs[r] =
                           [IdleRequest EXCEPT
                               !.kind = "post",
                               !.ov = MergeOverrides(hello.overrides, asked,
                                                     NoOverrides),
                               !.asked = IF "posts" \in follow THEN asked
                                         ELSE NoOverrides,
                               !.pc = "postStore"]]
    /\ UNCHANGED operatorVars

(* The POSTs in flight when the request r stores the overrides: they have  *)
(* loaded overrides that lack what r asked for                             *)
MissedBy(reqs, r) ==
    [x \in Requests |->
        IF x # r /\ reqs[x].kind = "post" /\ "posts" \in follow
        THEN [reqs[x] EXCEPT
                 !.missed = IF reqs[r].kind = "post"
                            THEN MergeOverrides(@, reqs[r].asked, NoOverrides)
                            ELSE NoOverrides]
        ELSE reqs[x]]

(* adminFlagsHandler lines 140-142: the copy is stored *)
AdminPostStore(r) ==
    /\ hello.reqs[r].pc = "postStore"
    /\ hello' = RequestDone(
                    [hello EXCEPT
                        !.overrides = hello.reqs[r].ov,
                        !.everEnabled =
                            @ \/ hello.reqs[r].ov.tracing = "true",
                        !.reqs = MissedBy(@, r)],
                    r, FALSE)
    /\ UNCHANGED operatorVars

(* adminFlagsResetHandler lines 149-156 *)
AdminReset(r) ==
    /\ hello.reqs[r].pc = "idle"
    /\ hello' = RequestDone(
                    [hello EXCEPT
                        !.overrides = NoOverrides,
                        !.reqs = MissedBy([@ EXCEPT ![r].kind = "reset"], r)],
                    r, FALSE)
    /\ UNCHANGED operatorVars

(* The requests to / in flight when shutdownTracerProvider runs *)
DisturbRequests(reqs) ==
    [x \in Requests |->
        IF reqs[x].kind = "hello" THEN [reqs[x] EXCEPT !.disturbed = TRUE]
        ELSE reqs[x]]

(* shutdownTracerProvider lines 184-188: under the mutex *)
ShutdownLock(r) ==
    /\ hello.reqs[r].pc = "idle"
    /\ hello.tracerInitMu = ""
    /\ hello' = [hello EXCEPT
                     !.done = NoRequestDone,
                     !.tracerShutdownFn = 0,
                     !.tracerInitialized = FALSE,
                     !.reqs = [DisturbRequests(@) EXCEPT
                                  ![r] = [IdleRequest EXCEPT
                                             !.kind = "shutdown",
                                             !.closes =
                                                 hello.tracerShutdownFn,
                                             !.pc = "close"]]]
    /\ UNCHANGED operatorVars

(* shutdownTracerProvider lines 190-194: the provider is closed *)
ShutdownClose(r) ==
    /\ hello.reqs[r].pc = "close"
    /\ hello' = RequestDone(
                    [hello EXCEPT
                        !.closed = IF hello.reqs[r].closes # 0
                                   THEN @ \cup {hello.reqs[r].closes}
                                   ELSE @,
                        !.reqs = [x \in Requests |->
                                     IF x = r THEN hello.reqs[r]
                                     ELSE DisturbRequests(hello.reqs)[x]]],
                    r, FALSE)
    /\ UNCHANGED operatorVars

NextHello ==
    \/ \E r \in Requests : HelloEval(r)
    \/ \E r \in Requests : EnsureCheck(r)
    \/ \E r \in Requests : EnsureLock(r)
    \/ \E r \in Requests : EnsureLocked(r)
    \/ \E r \in Requests : EnsureStore(r)
    \/ \E r \in Requests : HelloServe(r)
    \/ \E r \in Requests : AdminPost(r)
    \/ \E r \in Requests : AdminPostStore(r)
    \/ \E r \in Requests : AdminReset(r)
    \/ \E r \in Requests : ShutdownLock(r)
    \/ \E r \in Requests : ShutdownClose(r)

SpecHello == InitHello /\ [][NextHello]_vars

(* The admin endpoints alone, with what each POST asked for followed *)
InitFlags ==
    /\ bindings = [b \in Bindings |-> NoBinding]
    /\ InitCluster
    /\ deployment
    /\ envSteps = 0
    /\ follow = {"posts"}
    /\ queue = {}
    /\ hello = StartedHello(FALSE, FALSE)

NextFlags ==
    \/ \E r \in Requests : AdminPost(r)
    \/ \E r \in Requests : AdminPostStore(r)
    \/ \E r \in Requests : AdminReset(r)

SpecFlags == InitFlags /\ [][NextFlags]_vars

---------------------------------------------------------------------------
(* Properties *)

CondStatus(conditions, condType) ==
    IF \E i \in 1..Len(conditions) : conditions[i].type = condType
    THEN (CHOOSE c \in {conditions[i] : i \in 1..Len(conditions)} :
             c.type = condType).status
    ELSE ""

HasFinalizer(b) == bindings[b].exists /\ bindings[b].finalizer

Returned == last.key # ""

ReturnedOk == Returned /\ last.err = ""

(* A reconcile that loaded a live binding, or one under deletion that      *)
(* still held the finalizer                                                *)
ActiveReturn == Returned /\ last.loaded.exists /\ ~last.loaded.deleting

TeardownReturn ==
    Returned /\ last.loaded.exists /\ last.loaded.deleting
             /\ last.loaded.finalizer

(* C1: in every stored state of a binding, phase Bound implies that the    *)
(* conditions SessionDiscovered, PodReady and RouteConfigured are all True *)
(* and that status.routeEndpoint is not empty.                             *)
C1_BoundImpliesConditions ==
    \A b \in Bindings :
        (bindings[b].exists
            /\ bindings[b].status.phase = SessionBindingPhaseBound)
        => /\ \A c \in {ConditionSessionDiscovered, ConditionPodReady,
                        ConditionRouteConfigured} :
                 CondStatus(bindings[b].status.conditions, c) = ConditionTrue
           /\ bindings[b].status.routeEndpoint # ""

(* A binding that was Bound (RouteConfigured is still True from then) and  *)
(* whose later reconcile stored Pending, Error or Expired                  *)
C1_Witness ==
    \E b \in Bindings :
        /\ bindings[b].exists
        /\ bindings[b].status.phase \in
               {SessionBindingPhasePending, SessionBindingPhaseError,
                SessionBindingPhaseExpired}
        /\ CondStatus(bindings[b].status.conditions,
                      ConditionRouteConfigured) = ConditionTrue

(* C2, as stated: after every Reconcile that returns without error, the    *)
(* stored binding carries the finalizer iff its deletion timestamp is not  *)
(* set.                                                                    *)
C2_FinalizerIffLive ==
    (ReturnedOk /\ bindings[last.key].exists)
    => (bindings[last.key].finalizer <=> ~bindings[last.key].deleting)

(* C2, amended: after every Reconcile that returns without error, a stored *)
(* binding that is live carries the finalizer, and a binding that the      *)
(* Reconcile loaded under deletion no longer carries it.                   *)
C2_FinalizerAfterReconcile ==
    ReturnedOk
    => /\ (bindings[last.key].exists /\ ~bindings[last.key].deleting)
              => bindings[last.key].finalizer
       /\ (last.loaded.exists /\ last.loaded.deleting)
              => ~HasFinalizer(last.key)

(* A teardown has returned without error *)
C2_Witness ==
    ReturnedOk /\ TeardownReturn /\ last.key \in tornDown

(* C3: after every Reconcile that returns without error, a non-empty       *)
(* status.boundPod names an existing pod whose controller owner is the     *)
(* binding and whose session-id label is the binding's spec.sessionID.     *)
C3_BoundPodOwnedAndLabelled ==
    (ReturnedOk /\ bindings[last.key].exists
        /\ bindings[last.key].status.boundPod # "")
    => LET pod == pods[bindings[last.key].status.boundPod] IN
       /\ pod.exists
       /\ pod.owner = last.key
       /\ pod.session = bindings[last.key].sessionID

(* C4: no two pods carry the managed-by label with the same session-id     *)
(* label.                                                                  *)
C4_SinglePodPerSession ==
    \A p, q \in PodNames :
        (pods[p].exists /\ pods[q].exists /\ pods[p].managed
            /\ pods[q].managed /\ pods[p].session = pods[q].session)
        => p = q

(* Both bindings name one session, both have been reconciled onto the one  *)
(* managed pod of that session, and a second managed pod exists            *)
C4_Witness ==
    /\ \A b \in Bindings :
          /\ bindings[b].exists
          /\ bindings[b].sessionID = bindings["b1"].sessionID
          /\ bindings[b].status.boundPod = PodName(bindings[b].sessionID)
    /\ \A p \in PodNames : pods[p].exists /\ pods[p].managed

(* C5: once the teardown has removed the finalizer, no pod owned by the    *)
(* binding remains, and retractRoute has returned success in the teardown  *)
(* (for an empty spec.sessionID the spec makes retractRoute a no-op that   *)
(* succeeds, so nothing is asked of the call there).                       *)
C5_TeardownClosure ==
    (ReturnedOk /\ TeardownReturn)
    => /\ \A p \in PodNames : pods[p].exists => pods[p].owner # last.key
       /\ last.loaded.sessionID # "" => last.retracted

(* C6: in a teardown of a binding with non-empty spec.sessionID, a failed  *)
(* retractRoute makes the reconcile return that error with the finalizer   *)
(* still stored, and the finalizer is gone only when retractRoute          *)
(* succeeded in that reconcile.                                            *)
C6_RetractGatesFinalizer ==
    (TeardownReturn /\ last.loaded.sessionID # "")
    => /\ ~last.retracted =>
              (last.err = "EdgeUnavailable" /\ HasFinalizer(last.key))
       /\ ~HasFinalizer(last.key) => (last.retracted /\ last.err = "")
       /\ lastCall[last.key].op = "retractRoute"
       /\ lastCall[last.key].ok = last.retracted

(* A teardown that returned the error of retractRoute *)
C6_Witness ==
    /\ TeardownReturn
    /\ last.loaded.sessionID # ""
    /\ last.err = "EdgeUnavailable"
    /\ HasFinalizer(last.key)

(* C7: the stored status.observedGeneration never exceeds the stored       *)
(* metadata.generation.                                                    *)
C7_ObservedAtMostGeneration ==
    \A b \in Bindings :
        bindings[b].exists
        => bindings[b].status.observedGeneration <= bindings[b].generation

(* The spec has been edited and a reconcile has stamped a status since *)
C7_Witness ==
    \E b \in Bindings :
        /\ bindings[b].exists
        /\ bindings[b].generation > 1
        /\ bindings[b].status.observedGeneration = bindings[b].generation

(* C8, as stated: right after a status update that succeeded, the stored   *)
(* status.observedGeneration equals the stored metadata.generation.        *)
C8_ObservedEqualsStored ==
    (Returned /\ last.wrote)
    => bindings[last.key].status.observedGeneration
          = bindings[last.key].generation

(* C8, amended: right after a status update that succeeded, the stored     *)
(* status.observedGeneration equals the metadata.generation the reconcile  *)
(* loaded, which is at most the stored one.                                *)
C8_ObservedEqualsLoaded ==
    (Returned /\ last.wrote)
    => /\ bindings[last.key].status.observedGeneration
             = last.loaded.generation
       /\ last.loaded.generation <= bindings[last.key].generation

(* A status update succeeded after the user edited the spec during the     *)
(* reconcile                                                               *)
C8_Witness ==
    /\ Returned
    /\ last.wrote
    /\ bindings[last.key].status.observedGeneration
          < bindings[last.key].generation

(* C9, as stated: a reconcile that follows a successful one, with the      *)
(* spec, the cluster and the edge unchanged, leaves the stored status      *)
(* identical in every field: it issues no status update.                   *)
C9_Idempotent ==
    (ReturnedOk /\ last.mode = "again") => ~last.wrote

(* C9, amended: such a reconcile leaves every field of the stored status   *)
(* but lastReconcileTime identical.                                        *)
C9_IdempotentButTime ==
    (ReturnedOk /\ last.mode = "again" /\ bindings[last.key].exists)
    => [bindings[last.key].status EXCEPT !.lastReconcileTime = NoTime]
          = [last.loaded.status EXCEPT !.lastReconcileTime = NoTime]

(* A repeated reconcile wrote a status that differs in lastReconcileTime *)
C9_Witness ==
    /\ ReturnedOk
    /\ last.mode = "again"
    /\ last.wrote
    /\ bindings[last.key].status.lastReconcileTime
          # last.loaded.status.lastReconcileTime

(* C10, as stated: whenever the stored phase is Bound, the most recent     *)
(* edge call made for the binding was ensureRoute(spec.sessionID,          *)
(* status.routeEndpoint).                                                  *)
C10_BoundLastCallEnsureRoute ==
    \A b \in Bindings :
        (bindings[b].exists
            /\ bindings[b].status.phase = SessionBindingPhaseBound)
        => /\ lastCall[b].op = "ensureRoute"
           /\ lastCall[b].sessionID = bindings[b].sessionID
           /\ lastCall[b].endpoint = bindings[b].status.routeEndpoint

(* C10, amended: when a reconcile of a live binding returns without error  *)
(* with phase Bound, the stored phase is Bound and the most recent edge    *)
(* call made for the binding is the ensureRoute of that reconcile, which   *)
(* succeeded, with the sessionID the reconcile loaded and the stored       *)
(* status.routeEndpoint.                                                   *)
C10_BoundAtReturn ==
    (ReturnedOk /\ ActiveReturn
        /\ last.status.phase = SessionBindingPhaseBound)
    => /\ bindings[last.key].status.phase = SessionBindingPhaseBound
       /\ lastCall[last.key] =
             [op |-> "ensureRoute", sessionID |-> last.loaded.sessionID,
              endpoint |-> bindings[last.key].status.routeEndpoint,
              ok |-> TRUE]

(* A reconcile has just stored phase Bound *)
C10_Witness ==
    /\ ReturnedOk
    /\ ActiveReturn
    /\ last.wrote
    /\ bindings[last.key].status.phase = SessionBindingPhaseBound

---------------------------------------------------------------------------
(* The exits of reconcileActive *)

CondReason(conditions, condType) ==
    IF \E i \in 1..Len(conditions) : conditions[i].type = condType
    THEN (CHOOSE c \in {conditions[i] : i \in 1..Len(conditions)} :
             c.type = condType).reason
    ELSE ""

(* The reconcile that has just returned ran reconcileActive and patchStatus *)
RanActive == Returned /\ last.pc \in {"PatchGet", "PatchUpdate"}

(* The errors a failed status write of patchStatus returns *)
StatusWriteErrors == {"NotFound", "Conflict", "Canceled"}

(* reconcileActive returned a nil error; Reconcile then returns the error  *)
(* of patchStatus, which is nil unless the status write failed, and when   *)
(* it is nil the stored status is the one reconcileActive computed.        *)
NoErrorOfItsOwn ==
    /\ last.reconcileErr = ""
    /\ last.err \in {""} \cup StatusWriteErrors
    /\ last.err # "" => ~last.wrote
    /\ last.err = "" => /\ bindings[last.key].exists
                        /\ bindings[last.key].status = last.status

(* C12: when verifySession answers exists = false without error, the       *)
(* reconcile ends with phase Expired and SessionDiscovered = False with    *)
(* reason NotFound, returns no error and no requeue, and has neither       *)
(* looked up nor created a pod nor called ensureRoute.                     *)
C12_AbsentSessionExpires ==
    (RanActive /\ last.seen.session = "absent")
    => /\ last.status.phase = SessionBindingPhaseExpired
       /\ CondStatus(last.status.conditions, ConditionSessionDiscovered)
             = ConditionFalse
       /\ CondReason(last.status.conditions, ConditionSessionDiscovered)
             = "NotFound"
       /\ NoErrorOfItsOwn
       /\ last.requeueAfter = 0
       /\ last.calls \cap {"getPod", "getDeployment", "createPod",
                            "ensureRoute"} = {}

(* A reconcile found the session absent and stored phase Expired *)
C12_Witness ==
    /\ RanActive
    /\ last.seen.session = "absent"
    /\ last.wrote
    /\ bindings[last.key].status.phase = SessionBindingPhaseExpired

(* C13: when spec.sessionID is empty, the reconcile ends with phase Error  *)
(* and SessionDiscovered = False with reason InvalidSpec, returns no error *)
(* and no requeue, makes no edge call and creates no pod.                  *)
C13_EmptySessionIDInvalid ==
    (RanActive /\ last.loaded.sessionID = "")
    => /\ last.status.phase = SessionBindingPhaseError
       /\ CondStatus(last.status.conditions, ConditionSessionDiscovered)
             = ConditionFalse
       /\ CondReason(last.status.conditions, ConditionSessionDiscovered)
             = "InvalidSpec"
       /\ NoErrorOfItsOwn
       /\ last.requeueAfter = 0
       /\ last.calls \cap {"verifySession", "ensureRoute", "retractRoute",
                            "getPod", "createPod"} = {}

(* A reconcile of a binding with empty spec.sessionID stored phase Error *)
C13_Witness ==
    /\ RanActive
    /\ last.loaded.sessionID = ""
    /\ last.wrote
    /\ bindings[last.key].status.phase = SessionBindingPhaseError

(* C14: when the session exists and the session pod, found or created, is  *)
(* not ready (not Running, or its Ready condition not True), the reconcile *)
(* ends with phase Pending, status.boundPod the pod's name, an empty       *)
(* status.routeEndpoint and a requeue after 10 seconds with no error, and  *)
(* ensureRoute is not called.                                              *)
C14_PodNotReadyPending ==
    (RanActive /\ last.seen.session = "present"
        /\ last.seen.pod \in {"found", "created"}
        /\ ~(last.pod.phase = "Running" /\ last.pod.ready))
    => /\ last.status.phase = SessionBindingPhasePending
       /\ last.status.boundPod = last.pod.name
       /\ last.pod.name = PodName(last.loaded.sessionID)
       /\ last.status.routeEndpoint = ""
       /\ last.requeueAfter = 10
       /\ NoErrorOfItsOwn
       /\ "ensureRoute" \notin last.calls

(* A reconcile found a pod that is Running and not Ready, after an earlier *)
(* one had stored an endpoint, and stored phase Pending                    *)
C14_Witness ==
    /\ RanActive
    /\ last.seen.pod = "found"
    /\ last.pod.phase = "Running"
    /\ ~last.pod.ready
    /\ last.loaded.status.routeEndpoint # ""
    /\ last.wrote
    /\ bindings[last.key].status.phase = SessionBindingPhasePending

(* C15: when verifySession or ensureRoute fails, the reconcile ends with   *)
(* phase Error, the matching condition (SessionDiscovered = Unknown,       *)
(* RouteConfigured = False) with reason CloudflareError, and returns a nil *)
(* error with a requeue after 60 seconds.                                  *)
C15_EdgeErrorRequeues ==
    /\ (RanActive /\ last.seen.session = "error")
       => /\ last.status.phase = SessionBindingPhaseError
          /\ CondStatus(last.status.conditions, ConditionSessionDiscovered)
                = ConditionUnknown
          /\ CondReason(last.status.conditions, ConditionSessionDiscovered)
                = "CloudflareError"
          /\ NoErrorOfItsOwn
          /\ last.requeueAfter = 60
    /\ (RanActive /\ last.seen.route = "error")
       => /\ last.status.phase = SessionBindingPhaseError
          /\ CondStatus(last.status.conditions, ConditionRouteConfigured)
                = ConditionFalse
          /\ CondReason(last.status.conditions, ConditionRouteConfigured)
                = "CloudflareError"
          /\ NoErrorOfItsOwn
          /\ last.requeueAfter = 60

(* A reconcile whose ensureRoute failed stored phase Error over Bound *)
C15_Witness ==
    /\ RanActive
    /\ last.seen.route = "error"
    /\ last.loaded.status.phase = SessionBindingPhaseBound
    /\ last.wrote
    /\ bindings[last.key].status.phase = SessionBindingPhaseError

(* C16: a reconcile that finds the finalizer absent on a live binding adds *)
(* it, writes the metadata back and returns without going further: it      *)
(* makes no edge call, creates no pod and writes no status.                *)
C16_FinalizerInstallReturns ==
    (ActiveReturn /\ ~last.loaded.finalizer /\ last.pc # "AddFinalizer")
    => /\ HasFinalizer(last.key) \/ ~bindings[last.key].exists
       /\ last.calls = {"updateBinding"}

(* C17: a reconcile that ends in phase Error or Expired leaves             *)
(* status.boundPod and status.routeEndpoint at the values stored before    *)
(* it.                                                                     *)
C17_ErrorExpiredKeepPodAndRoute ==
    (RanActive /\ last.status.phase \in {SessionBindingPhaseError,
                                          SessionBindingPhaseExpired})
    => /\ last.status.boundPod = last.loaded.status.boundPod
       /\ last.status.routeEndpoint = last.loaded.status.routeEndpoint
       /\ bindings[last.key].exists
          => /\ bindings[last.key].status.boundPod
                   = last.loaded.status.boundPod
             /\ bindings[last.key].status.routeEndpoint
                   = last.loaded.status.routeEndpoint

(* A reconcile stored phase Error or Expired over a status that named a    *)
(* pod and an endpoint                                                     *)
C17_Witness ==
    /\ RanActive
    /\ last.wrote
    /\ bindings[last.key].status.phase \in {SessionBindingPhaseError,
                                             SessionBindingPhaseExpired}
    /\ last.loaded.status.phase = SessionBindingPhaseBound
    /\ bindings[last.key].status.boundPod # ""
    /\ bindings[last.key].status.routeEndpoint # ""

(* C18: when the pod lookup reports the pod absent and the CREATE that     *)
(* follows fails with AlreadyExists, the pod-ensure step counts as a       *)
(* success: the reconcile does not return the collision as an error to the *)
(* queue (and does not end in phase Error for it).                         *)
C18_CreateCollisionIsSuccess ==
    (RanActive /\ "createPod" \in last.calls /\ last.seen.pod = "error"
        /\ last.seen.fault = "")
    => /\ last.reconcileErr = ""
       /\ last.err \in {""} \cup StatusWriteErrors
       /\ last.status.phase # SessionBindingPhaseError

(* C19: in a teardown with status.boundPod set, a failure other than       *)
(* NotFound of the lookup or of the deletion of the bound pod is returned  *)
(* as the reconcile's error and the finalizer stays in that reconcile.     *)
C19_TeardownSurfacesPodErrors ==
    (TeardownReturn /\ last.loaded.status.boundPod # ""
        /\ last.seen.fault \in {"getPod", "deletePod"})
    => /\ last.err # ""
       /\ HasFinalizer(last.key)

(* C20: when a call inside a reconcile is aborted by the cancellation of   *)
(* the context, the reconcile returns without issuing a status update, and *)
(* the stored status is the one from before the reconcile.                 *)
C20_CancelledIssuesNoStatusUpdate ==
    (Returned /\ last.seen.fault = "canceled")
    => /\ "updateStatus" \notin last.calls
       /\ bindings[last.key].exists
          => bindings[last.key].status = last.loaded.status

---------------------------------------------------------------------------
(* The status write-back *)

(* patchStatus issues the update only over a stored status that differs    *)
(* from the computed one, and a reconcile whose re-read found no           *)
(* difference has issued none and leaves the stored status as it is        *)
UpdateOnlyOnDifference ==
    /\ (rec.pc = "PatchUpdate" /\ bindings[rec.key].exists)
       => bindings[rec.key].status # rec.obj.status
    /\ (Returned /\ "updateStatus" \in last.calls)
       => last.loaded.status # last.status
    /\ (Returned /\ last.seen.write = "same")
       => /\ "updateStatus" \notin last.calls
          /\ ~last.wrote
          /\ bindings[last.key].status = last.status
          /\ bindings[last.key].status = last.loaded.status

(* The update that met a newer resourceVersion wrote nothing, then or in a *)
(* retry: the stored status is the one from before the reconcile           *)
StaleUpdateNotRetried ==
    (Returned /\ last.seen.write = "stale")
    => /\ ~last.wrote
       /\ bindings[last.key].exists
       /\ bindings[last.key].status = last.loaded.status
       /\ bindings[last.key].status # last.status

(* C21, as stated: the status write-back issues a status update only when  *)
(* the computed status differs from the status re-read from the cluster,   *)
(* and when that update fails on a stale resource version the failure is   *)
(* returned to the caller of Reconcile with no in-line retry.              *)
C21_StaleUpdateReturned ==
    /\ UpdateOnlyOnDifference
    /\ StaleUpdateNotRetried
    /\ (Returned /\ last.seen.write = "stale") => last.err = "Conflict"

(* C21, amended: the same, where the failure on a stale resource version   *)
(* is what Reconcile returns when reconcileActive returned no error; when  *)
(* reconcileActive returned an error, Reconcile returns that error in its  *)
(* place.                                                                  *)
C21_StaleUpdateReturnedUnlessMasked ==
    /\ UpdateOnlyOnDifference
    /\ StaleUpdateNotRetried
    /\ (Returned /\ last.seen.write = "stale")
       => /\ last.err # ""
          /\ last.err = IF last.reconcileErr # "" THEN last.reconcileErr
                        ELSE "Conflict"

(* A status update met a newer resourceVersion in a reconcile whose        *)
(* reconcileActive had returned an error                                   *)
C21_Witness ==
    /\ Returned
    /\ last.seen.write = "stale"
    /\ last.reconcileErr # ""

(* A reconcile of a Bound binding found the stored status equal to the    *)
(* computed one                                                            *)
C21_WitnessSame ==
    /\ Returned
    /\ last.seen.write = "same"
    /\ last.loaded.status.phase = SessionBindingPhaseBound

(* The endpoint the edge maps a session to, "" when it holds no route *)
EdgeRoute(sessionID) ==
    IF sessionID \in SessionIDs THEN routes[sessionID] ELSE ""

(* C22: after every successful reconcile of a live binding,                *)
(* status.routeEndpoint equals the endpoint that the edge currently maps   *)
(* the binding's session to, and is empty exactly when the edge holds no   *)
(* route for that session; also after Bound, then the pod not ready        *)
(* (Pending).  The binding is one that names a session and that nobody     *)
(* edited or deleted in the course of the reconcile.                       *)
C22_RouteEndpointIsEdgeRoute ==
    (ReturnedOk /\ ActiveReturn /\ bindings[last.key].exists
        /\ ~bindings[last.key].deleting
        /\ bindings[last.key].sessionID # ""
        /\ bindings[last.key].generation = last.loaded.generation)
    => bindings[last.key].status.routeEndpoint
          = EdgeRoute(bindings[last.key].sessionID)

(* C23: when the target deployment does not exist and no session pod      *)
(* exists yet, the reconcile creates no pod, does not call ensureRoute,    *)
(* records phase Error, and returns the error to the queue (error backoff) *)
(* rather than a timed requeue.                                            *)
C23_TemplateMissingSurfaces ==
    (RanActive /\ last.seen.session = "present" /\ ~deployment
        /\ ~last.pod.exists)
    => /\ last.calls \cap {"createPod", "ensureRoute"} = {}
       /\ "getDeployment" \in last.calls
       /\ last.events = {}
       /\ last.status.phase = SessionBindingPhaseError
       /\ last.wrote
          => bindings[last.key].status.phase = SessionBindingPhaseError
       /\ last.reconcileErr = "TemplateMissing"
       /\ last.err = "TemplateMissing"
       /\ last.requeueAfter = 0

(* A reconcile that found neither the session pod nor the deployment has   *)
(* stored phase Error and returned the error                               *)
C23_Witness ==
    /\ RanActive
    /\ ~deployment
    /\ last.seen.pod = "error"
    /\ ~pods[PodName(last.loaded.sessionID)].exists
    /\ last.err = "TemplateMissing"
    /\ last.wrote
    /\ bindings[last.key].status.phase = SessionBindingPhaseError

---------------------------------------------------------------------------
(* Events *)

(* The reason of the condition that an exit into phase Error has set: the  *)
(* first of the three conditions that is not True                          *)
ErrorReason(status) ==
    IF CondStatus(status.conditions, ConditionSessionDiscovered)
          # ConditionTrue
    THEN CondReason(status.conditions, ConditionSessionDiscovered)
    ELSE IF CondStatus(status.conditions, ConditionPodReady) # ConditionTrue
    THEN CondReason(status.conditions, ConditionPodReady)
    ELSE CondReason(status.conditions, ConditionRouteConfigured)

(* C25: every reconcile that moves a binding into phase Error emits an     *)
(* event against the binding whose reason is the condition-reason string   *)
(* of that transition (InvalidSpec, CloudflareError or                     *)
(* PodEndpointMissing).                                                    *)
C25_ErrorTransitionEmitsEvent ==
    (RanActive /\ last.reconcileErr = ""
        /\ last.status.phase = SessionBindingPhaseError
        /\ last.loaded.status.phase # SessionBindingPhaseError)
    => /\ ErrorReason(last.status)
             \in {"InvalidSpec", "CloudflareError", "PodEndpointMissing"}
       /\ ErrorReason(last.status) \in last.events

---------------------------------------------------------------------------
(* Endpoint derivation *)

(* C26, as stated: podEndpoint returns the empty string when the pod IP is *)
(* empty; otherwise it returns podIP + ":" + port where port is the first  *)
(* declared port of the first container (containers[0]) when that          *)
(* container declares at least one port, and 80 in every other case,       *)
(* including when only a later container declares ports.                   *)
C26_PortOfFirstContainer ==
    applied.fn = "podEndpoint"
    => LET pod == applied.args[1]
           port == IF Len(pod.containers) > 0 /\ Len(pod.containers[1]) > 0
                   THEN pod.containers[1][1] ELSE 80
       IN  applied.result = IF pod.podIP = "" THEN ""
                            ELSE pod.podIP \o ":" \o ToString(port)

(* C26, amended: port is the first declared port of the first container,   *)
(* in the pod's order, that declares at least one port, and 80 when no     *)
(* container declares a port.                                              *)
C26_PortOfFirstDeclaringContainer ==
    applied.fn = "podEndpoint"
    => LET pod == applied.args[1]
           declaring == {i \in 1..Len(pod.containers) :
                            Len(pod.containers[i]) > 0}
           first == CHOOSE i \in declaring : \A j \in declaring : i <= j
           port == IF declaring = {} THEN 80 ELSE pod.containers[first][1]
       IN  applied.result = IF pod.podIP = "" THEN ""
                            ELSE pod.podIP \o ":" \o ToString(port)

(* podEndpoint was given a pod with an IP whose first container declares   *)
(* no port and whose second container declares one                         *)
C26_Witness ==
    /\ applied.fn = "podEndpoint"
    /\ applied.args[1].podIP # ""
    /\ Len(applied.args[1].containers) >= 2
    /\ Len(applied.args[1].containers[1]) = 0
    /\ Len(applied.args[1].containers[2]) > 0
    /\ applied.result = applied.args[1].podIP \o ":"
                            \o ToString(applied.args[1].containers[2][1])

---------------------------------------------------------------------------
(* The edge client without credentials *)

(* The call evaluated last is a call of the edge client fn, made without   *)
(* credentials                                                             *)
WithoutCredentials(fn) ==
    /\ applied.fn = fn
    /\ (applied.args[1].accountID = "" \/ applied.args[1].apiToken = "")

(* retractRoute without credentials returns success for every argument,    *)
(* and no call of the client changes anything                              *)
RetractSucceedsNothingChanges ==
    /\ WithoutCredentials("DeleteRoute") => applied.result = ""
    /\ routes = [s \in SessionIDs |-> ""]
    /\ sessions = [s \in SessionIDs |-> TRUE]

(* C27, as stated: when edge credentials are absent (account id or API     *)
(* token empty), verifySession returns exists = true with no error for     *)
(* every sessionID, and ensureRoute and retractRoute are no-ops that       *)
(* return success for every argument.                                      *)
C27_DisabledEdgeAcceptsAll ==
    /\ WithoutCredentials("EnsureSession")
       => applied.result = [exists |-> TRUE, err |-> ""]
    /\ WithoutCredentials("EnsureRoute") => applied.result = ""
    /\ RetractSucceedsNothingChanges

(* C27, amended: without credentials, verifySession returns exists = true  *)
(* with no error for every non-empty sessionID, and ensureRoute returns    *)
(* success for every non-empty sessionID and non-empty endpoint; an empty  *)
(* sessionID makes both fail, and so does an empty endpoint for            *)
(* ensureRoute, credentials or not; retractRoute returns success for every *)
(* argument.                                                               *)
C27_DisabledEdgeAcceptsNonEmpty ==
    /\ WithoutCredentials("EnsureSession")
       => IF applied.args[2] # ""
          THEN applied.result = [exists |-> TRUE, err |-> ""]
          ELSE ~applied.result.exists /\ applied.result.err # ""
    /\ WithoutCredentials("EnsureRoute")
       => (applied.result = ""
              <=> (applied.args[2] # "" /\ applied.args[3] # ""))
    /\ RetractSucceedsNothingChanges

(* verifySession was called without an API token for session s1 and        *)
(* answered that the session exists                                        *)
C27_Witness ==
    /\ applied.fn = "EnsureSession"
    /\ applied.args[1].apiToken = ""
    /\ applied.args[2] = "s1"
    /\ applied.result.exists

(* The value spells the word: the word in any mix of upper and lower case, *)
(* with white space before and after it and none inside                    *)
Spells(value, word) ==
    \E before \in 0..Len(value) :
        /\ before + Len(word) <= Len(value)
        /\ \A i \in 1..Len(value) :
              IF i <= before \/ i > before + Len(word)
              THEN value[i] \in WhiteSpace
              ELSE \/ value[i] = word[i - before]
                   \/ \E k \in 1..Len(Uppers) :
                         /\ value[i] = Uppers[k]
                         /\ word[i - before] = Lowers[k]

(* C31: getBoolEnv(name, def) returns true when the variable's trimmed,    *)
(* lower-cased value is one of 1, true, t, yes, y, on; false when it is    *)
(* one of 0, false, f, no, n, off; and def when the variable is unset,     *)
(* empty or holds any other value.                                         *)
C31_GetBoolEnv ==
    applied.fn = "getBoolEnv"
    => LET env == applied.args[1]
           def == applied.args[2]
       IN  applied.result =
               IF env.set /\ \E w \in TruthyWords : Spells(env.value, w)
               THEN TRUE
               ELSE IF env.set /\ \E w \in FalsyWords : Spells(env.value, w)
               THEN FALSE
               ELSE def

(* getBoolEnv was given the value " ON" followed by a tab, with default    *)
(* false, and returned true                                                *)
C31_Witness ==
    /\ applied.fn = "getBoolEnv"
    /\ applied.args[1].set
    /\ applied.args[1].value = <<" ", "O", "N", "\t">>
    /\ ~applied.args[2]
    /\ applied.result = TRUE

---------------------------------------------------------------------------
(* Scheduling *)

(* C28: no two Reconcile invocations for the same binding (same namespaced *)
(* name) are ever in flight at the same time.                              *)
C28_SingleFlightPerBinding ==
    \A b \in Bindings : Cardinality({w \in Workers : workers[w] = b}) <= 1

(* A Reconcile of a binding is in flight while a new request for the same  *)
(* binding is pending and another binding waits with it                    *)
C28_Witness ==
    \E w \in Workers :
        /\ workers[w] # ""
        /\ workers[w] \in queue
        /\ queue = Bindings

---------------------------------------------------------------------------
(* Progression of observedGeneration *)

(* C29: across any sequence of reconciles and spec edits of one binding,   *)
(* the stored status.observedGeneration never decreases.                   *)
C29_ObservedGenerationMonotonic ==
    [][\A b \in Bindings :
          (bindings[b].exists /\ bindings'[b].exists)
          => bindings'[b].status.observedGeneration
                >= bindings[b].status.observedGeneration]_vars

(* A reconcile has raised the stored observedGeneration of a binding whose *)
(* spec was edited after an earlier reconcile had observed it              *)
C29_Witness ==
    /\ Returned
    /\ last.wrote
    /\ last.loaded.status.observedGeneration >= 1
    /\ bindings[last.key].status.observedGeneration
          > last.loaded.status.observedGeneration

---------------------------------------------------------------------------
(* Tracing in the hello service *)

(* Tracing was enabled at some time: by default at the start, by an admin  *)
(* override stored as true, or by the flag the OpenFeature client answers; *)
(* while it never was, no tracer provider is initialised or installed      *)
NotInitializedBeforeEnabled ==
    (hello.tracerInitialized \/ hello.provider # 0) => hello.everEnabled

---------------------------------------------------------------------------
(* The teardown *)

(* The state a teardown that returned without error ends in, whether it    *)
(* was the first attempt or a retry: the binding is gone, the edge holds   *)
(* no route for its session, and the pod its status named was deleted if   *)
(* the lookup found it                                                     *)
TeardownFinalState ==
    /\ ~bindings[last.key].exists
    /\ last.key \in tornDown
    /\ EdgeRoute(last.loaded.sessionID) = ""
    /\ last.pod.exists => "deletePod" \in last.calls

(* C24: the teardown is re-entrant: when an attempt fails at any step (pod *)
(* delete, retractRoute, or the metadata write that removes the finalizer) *)
(* and is retried, the retried run ends in the same final state as a       *)
(* single uninterrupted run, and the CleanedUp event is emitted for a      *)
(* successful teardown only, not for an attempt that returns an error.     *)
C24_TeardownReentrant ==
    /\ (ReturnedOk /\ TeardownReturn) => TeardownFinalState
    /\ (TeardownReturn /\ last.err # "") => "CleanedUp" \notin last.events

---------------------------------------------------------------------------
(* Convergence *)

(* The binding is stored Bound on the pod of its session, with an endpoint *)
(* podIP:port and all three conditions True                                *)
BoundOnSessionPod(b) ==
    /\ bindings[b].exists
    /\ bindings[b].status.phase = SessionBindingPhaseBound
    /\ bindings[b].status.boundPod = PodName(bindings[b].sessionID)
    /\ bindings[b].status.routeEndpoint
          \in {PodIP \o ":" \o ToString(port) : port \in {8080, DefaultPort}}
    /\ \A c \in {ConditionSessionDiscovered, ConditionPodReady,
                   ConditionRouteConfigured} :
          CondStatus(bindings[b].status.conditions, c) = ConditionTrue

(* C11: a live binding with a non-empty sessionID, whose session the edge  *)
(* keeps reporting and whose target deployment exists, reaches phase Bound *)
(* with boundPod = "session-" + sessionID, routeEndpoint = podIP:port and  *)
(* all three conditions True, once the pod gets ready and ensureRoute      *)
(* succeeds, from every state it is in: not reconciled yet, Pending, or    *)
(* Error.                                                                  *)
C11_ConvergesToBound ==
    \A b \in Bindings :
        (bindings[b].exists
            /\ bindings[b].status.phase # SessionBindingPhaseBound)
        ~> BoundOnSessionPod(b)

(* A reconcile has stored Bound over the Error of a failed ensureRoute *)
C11_Witness ==
    /\ RanActive
    /\ last.wrote
    /\ last.loaded.status.phase = SessionBindingPhaseError
    /\ CondReason(last.loaded.status.conditions, ConditionRouteConfigured)
          = "CloudflareError"
    /\ BoundOnSessionPod(last.key)


----------------------------------------------------------------------------
(* The order of the steps of a reconcile *)

(* What a reconcile that calls EnsureRoute has done before: verifySession  *)
(* answered that the session exists, the session pod was obtained and was  *)
(* Running and Ready, and the endpoint derived from it is not empty        *)
ReadyForRoute(r) ==
    /\ "verifySession" \in r.calls
    /\ r.seen.session = "present"
    /\ r.calls \cap {"getPod", "createPod"} # {}
    /\ r.seen.pod \in {"found", "created"}
    /\ r.pod.exists
    /\ isPodReady(r.pod)
    /\ podEndpoint(r.pod) # ""

(* The steps of an invocation r of reconcileActive are in order *)
StepsInOrder(r) ==
    /\ ("ensureRoute" \in r.calls \/ r.pc = "EnsureRoute") => ReadyForRoute(r)
    /\ (r.calls \cap {"getPod", "getDeployment", "createPod"} # {}
            \/ r.pc \in {"GetPod", "CreatePod"})
       => /\ "verifySession" \in r.calls
          /\ r.seen.session = "present"

(* C32: within one reconcile the steps are strictly ordered: ensureRoute   *)
(* is called only after, in that same reconcile, verifySession returned    *)
(* exists=true, the session pod was obtained, the pod was found Running    *)
(* and Ready, and a non-empty endpoint was derived; a pod is looked up or  *)
(* created only after verifySession returned exists=true.                  *)
C32_StepsOrdered ==
    /\ (rec.pc # "idle" /\ ~rec.loaded.deleting) => StepsInOrder(rec)
    /\ ActiveReturn => StepsInOrder(last)
    /\ \A b \in Bindings :
          (lastCall[b].op = "ensureRoute" /\ rec.key = b /\ rec.pc # "idle"
              /\ "ensureRoute" \in rec.calls)
          => /\ lastCall[b].endpoint = podEndpoint(rec.pod)
             /\ lastCall[b].endpoint # ""

(* A reconcile of a live binding has called ensureRoute and returned *)
C32_Witness ==
    /\ ActiveReturn
    /\ "ensureRoute" \in last.calls
    /\ last.seen.route = "ok"
    /\ last.seen.pod = "found"


----------------------------------------------------------------------------
(* The phase and the observations *)

(* The phase as a function of what a reconcile r of a live binding         *)
(* observed: spec.sessionID, the answer of verifySession, whether          *)
(* the session pod was obtained, its readiness, the endpoint derived and   *)
(* the result of ensureRoute                                               *)
PhaseObserved(r) ==
    IF r.loaded.sessionID = "" THEN SessionBindingPhaseError
    ELSE IF r.seen.session = "error" THEN SessionBindingPhaseError
    ELSE IF r.seen.session = "absent" THEN SessionBindingPhaseExpired
    ELSE IF r.seen.pod = "error" THEN SessionBindingPhaseError
    ELSE IF ~isPodReady(r.pod) THEN SessionBindingPhasePending
    ELSE IF podEndpoint(r.pod) = "" THEN SessionBindingPhaseError
    ELSE IF r.seen.route = "error" THEN SessionBindingPhaseError
    ELSE SessionBindingPhaseBound

(* C33: the phase written by a reconcile is a function of the external     *)
(* observations made in that reconcile only (spec.sessionID, verifySession *)
(* result, pod existence and readiness, endpoint, ensureRoute result): two *)
(* reconciles that make the same observations write the same phase         *)
(* whatever status was stored before.                                      *)
C33_PhaseFromObservations ==
    (RanActive /\ last.seen.write \in {"written", "same"}
        /\ last.seen.fault = "")
    => /\ last.status.phase = PhaseObserved(last)
       /\ bindings[last.key].status.phase = PhaseObserved(last)

(* A reconcile loaded a binding stored in phase Bound, found the pod not   *)
(* ready and wrote phase Pending                                           *)
C33_Witness ==
    /\ RanActive
    /\ last.seen.write = "written"
    /\ last.loaded.status.phase = SessionBindingPhaseBound
    /\ last.status.phase = SessionBindingPhasePending
    /\ PhaseObserved(last) = SessionBindingPhasePending


----------------------------------------------------------------------------
(* The RouteConfigured condition *)

(* C34: after every reconcile that writes status, the RouteConfigured      *)
(* condition is True only if the phase written is Bound and                *)
(* status.routeEndpoint is non-empty; in particular a binding that was     *)
(* Bound and then goes to Pending, Expired or Error does not keep          *)
(* RouteConfigured = True.                                                 *)
C34_RouteConfiguredOnlyWhenBound ==
    (RanActive /\ last.seen.write = "written"
        /\ CondStatus(last.status.conditions, ConditionRouteConfigured)
               = ConditionTrue)
    => /\ last.status.phase = SessionBindingPhaseBound
       /\ last.status.routeEndpoint # ""


----------------------------------------------------------------------------
(* The routes a binding leaves behind *)

(* C35: after a binding's teardown completes (finalizer removed), the edge *)
(* holds no route for any sessionID for which this binding ever called     *)
(* ensureRoute successfully, including a sessionID that spec.sessionID     *)
(* held before it was edited.                                              *)
C35_TeardownRetractsAllRoutes ==
    (TeardownReturn /\ ReturnedOk /\ last.key \in tornDown
        /\ ~bindings[last.key].exists)
    => \A sid \in SessionIDs :
          <<last.key, sid>> \in routed => EdgeRoute(sid) = ""


----------------------------------------------------------------------------
(* What a teardown takes from other bindings *)

(* Another binding than b is stored live in phase Bound *)
OtherBound(b) ==
    {o \in Bindings \ {b} :
        /\ bindings[o].exists
        /\ ~bindings[o].deleting
        /\ bindings[o].status.phase = SessionBindingPhaseBound}

(* The Delete of the teardown removes a pod whose controller owner is the  *)
(* binding torn down                                                       *)
TeardownDeletesOwnPod ==
    CleanupDeletePod
    => LET p == rec.obj.status.boundPod IN
       ((pods[p].exists /\ ~pods'[p].exists) => pods[p].owner = rec.key)

(* The Delete of the teardown does not remove the pod that the status of   *)
(* another binding in phase Bound names                                    *)
TeardownSparesBoundPod ==
    CleanupDeletePod
    => LET p == rec.obj.status.boundPod IN
       ((pods[p].exists /\ ~pods'[p].exists)
        => \A o \in OtherBound(rec.key) : bindings[o].status.boundPod # p)

(* The DeleteRoute of the teardown does not retract the route of a session *)
(* that another binding in phase Bound names                               *)
TeardownSparesBoundRoute ==
    DeleteRoute
    => ((routes[rec.obj.sessionID] # "" /\ routes'[rec.obj.sessionID] = "")
        => \A o \in OtherBound(rec.key) :
              bindings[o].sessionID # rec.obj.sessionID)

(* C36: teardown of a binding deletes only a pod whose controller owner    *)
(* reference points to that binding, and retracts only a route no other    *)
(* live binding relies on: with two bindings in one namespace that share a *)
(* sessionID, deleting one of them never removes the pod named in the      *)
(* other's status.boundPod while that other binding is in phase Bound.     *)
C36_TeardownSparesOthers ==
    [][/\ TeardownSparesBoundPod
       /\ TeardownSparesBoundRoute
       /\ TeardownDeletesOwnPod]_vars


(* The part of C36 on two bindings that share a sessionID, alone *)
C36_SharedSessionPodSpared == [][TeardownSparesBoundPod]_vars

(* The part of C36 on the route, alone *)
C36_SharedSessionRouteSpared == [][TeardownSparesBoundRoute]_vars


----------------------------------------------------------------------------
(* The teardown ends *)

(* C37: teardown liveness: for a binding marked for deletion that carries  *)
(* the finalizer, if retractRoute and the cluster API calls eventually     *)
(* succeed and the queue re-delivers the binding after every returned      *)
(* error, then the finalizer is eventually removed.                        *)
C37_TeardownCompletes ==
    \A b \in Bindings :
        (bindings[b].exists /\ bindings[b].deleting /\ bindings[b].finalizer)
        ~> ~HasFinalizer(b)

(* A teardown has returned an error and the binding, still under deletion  *)
(* with its finalizer, waits for the queue to deliver it again             *)
C37_Witness ==
    /\ TeardownReturn
    /\ last.err # ""
    /\ bindings[last.key].exists
    /\ bindings[last.key].deleting
    /\ bindings[last.key].finalizer
    /\ last.key \in queue


----------------------------------------------------------------------------
(* The tracer provider is built once *)

(* Every provider the factory built before the latest one has been taken   *)
(* by a shutdownTracerProvider, which has closed it or is about to         *)
OneProviderBetweenShutdowns ==
    \A p \in 1..(hello.provider - 1) :
        \/ p \in hello.closed
        \/ \E r \in Requests :
              hello.reqs[r].pc = "close" /\ hello.reqs[r].closes = p

(* A step in which a request calls the factory, with or without success *)
FactoryCalled ==
    \E r \in Requests :
        /\ hello.reqs[r].factory = ""
        /\ hello'.reqs[r].factory # ""

(* C38: in the hello service, under any interleaving of concurrent         *)
(* requests that find tracing enabled, the tracer provider factory is      *)
(* invoked successfully at most once between two shutdowns: once           *)
(* tracerInitialized is true no further factory call happens until         *)
(* shutdownTracerProvider resets it.                                       *)
C38_FactoryOncePerShutdown ==
    /\ [](OneProviderBetweenShutdowns)
    /\ [][(FactoryCalled \/ hello'.provider # hello.provider)
             => ~hello.tracerInitialized]_vars

(* A request built the provider and stored it while another request that   *)
(* found tracing enabled and the provider not initialised holds the mutex, *)
(* before its second check                                                 *)
C38_Witness ==
    \E r1, r2 \in Requests :
        /\ r1 # r2
        /\ hello.reqs[r1].factory = "ok"
        /\ hello.reqs[r1].pc = "serve"
        /\ hello.reqs[r2].kind = "hello"
        /\ hello.reqs[r2].pc = "locked"
        /\ hello.tracerInitialized


----------------------------------------------------------------------------
(* Concurrent POSTs to /admin/flags *)

(* C39: in the hello service, two concurrent POST /admin/flags requests,   *)
(* one setting only the tracing override and one setting only the metrics  *)
(* override, both take effect: after both return, the stored overrides     *)
(* hold both values (no lost update in the load-modify-store of the        *)
(* overrides).                                                             *)
C39_ConcurrentPostsBothTakeEffect ==
    /\ (hello.done.kind = "post"
           /\ hello.done.asked.tracing = "" /\ hello.done.asked.metrics # ""
           /\ hello.done.missed.tracing # "" /\ hello.done.missed.metrics = "")
       => hello.overrides = [tracing |-> hello.done.missed.tracing,
                             metrics |-> hello.done.asked.metrics]
    /\ (hello.done.kind = "post"
           /\ hello.done.asked.metrics = "" /\ hello.done.asked.tracing # ""
           /\ hello.done.missed.metrics # "" /\ hello.done.missed.tracing = "")
       => hello.overrides = [tracing |-> hello.done.asked.tracing,
                             metrics |-> hello.done.missed.metrics]

====
